---- MODULE Spec2Model ----
(***************************************************************************)
(* A model of the valuator computation core: the scannerless backtracking  *)
(* parser (parser.rs), the value algebra (cell.rs), the tree-walking       *)
(* evaluator (eval.rs) and the tile with its dependency graph and recalc   *)
(* driver (tile.rs, handle.rs, board.rs).                                  *)
(*                                                                         *)
(* Characters are one-character strings, a formula is a sequence of them.  *)
(* A Decimal is an exact rational [n, d] in lowest terms with d > 0; the   *)
(* formulas of the model only divide by numbers whose quotients terminate  *)
(* in base 10, so the 96-bit decimal of the program holds them exactly.    *)
(***************************************************************************)
EXTENDS Integers, Sequences, FiniteSets, TLC

\* ------------------------------------------------------------------------
\* Values (cell.rs)
\* ------------------------------------------------------------------------

Abs(x) == IF x < 0 THEN 0 - x ELSE x

RECURSIVE gcd(_, _)
gcd(a, b) == IF b = 0 THEN a ELSE gcd(b, a % b)

\* A Decimal: the rational n/d in lowest terms, d > 0.
Dec(n, d) ==
  LET g == gcd(Abs(n), Abs(d))
      s == IF d < 0 THEN 0 - 1 ELSE 1
  IN [n |-> (s * n) \div g, d |-> (s * d) \div g]

DecInt(i) == [n |-> i, d |-> 1]

Num(q) == [t |-> "Num", q |-> q]
Bool(b) == [t |-> "Bool", b |-> b]
Float(q) == [t |-> "Float", q |-> q]
IntVal(i) == [t |-> "Int", i |-> i]
Str(s) == [t |-> "Str", s |-> s]
ListVal(elems) == [t |-> "List", elems |-> elems]
ArrayVal(value, dims) == [t |-> "Array", value |-> value, dims |-> dims]
RecordVal(value, fields) == [t |-> "Record", value |-> value, fields |-> fields]

\* an f64 is held as the rational it equals; NaN is the f64 that equals none
NaN == [n |-> 0, d |-> 0]

is_finite(q) == q.d # 0

\* impl Default for Val
ValDefault == Num(DecInt(0))

ErrorStr == <<"e", "r", "r", "o", "r">>

\* ------------------------------------------------------------------------
\* Nodes (eval.rs)
\* ------------------------------------------------------------------------

LIST_ELEMS == 8

\* Option<NodeId>::None of List.link
NoLink == -1

Zero == [k |-> "Zero"]
Leaf(value) == [k |-> "Leaf", value |-> value]
BinOp(op, lhs, rhs) == [k |-> "BinOp", op |-> op, lhs |-> lhs, rhs |-> rhs]
Index(row, col) == [k |-> "Index", row |-> row, col |-> col]
Addr(row, col) == [k |-> "Addr", row |-> row, col |-> col]
List(elems, len, link) == [k |-> "List", elems |-> elems, len |-> len, link |-> link]

\* [NodeId(0); LIST_ELEMS]
ZeroElems == [i \in 1..LIST_ELEMS |-> 0]

\* ------------------------------------------------------------------------
\* Parser (parser.rs): state, results, primitives
\* ------------------------------------------------------------------------

\* the '\0' of char::default()
NUL == "NUL"

NoMemo == [ok |-> FALSE, v |-> Zero]

\* Parser::new: node 0 is Node::default(), value 0 is Val::default().
\* panic records an out-of-arena get_node during the parse.  trace is
\* history: the iterations of the loops of leftpoline, in the order they ended.
Parser_new(input) ==
  [buf |-> input, pos |-> 0, tokens |-> <<>>, nodes |-> <<Zero>>,
   values |-> <<ValDefault>>, memos |-> <<NoMemo, NoMemo, NoMemo>>,
   panic |-> FALSE, trace |-> <<>>]

Some(v, p) == [ok |-> TRUE, v |-> v, p |-> p]
None(p) == [ok |-> FALSE, v |-> NUL, p |-> p]
NoNode(p) == [ok |-> FALSE, v |-> Zero, p |-> p]

\* rule_key: "expr_list" -> 2, "expr" -> 1, anything else 0 (as 1-based slots)
rule_key(name) == IF name = "expr_list" THEN 3 ELSE IF name = "expr" THEN 2 ELSE 1

Truncate(s, n) == IF n >= Len(s) THEN s ELSE SubSeq(s, 1, n)

\* Token: pos u32, len u16
Token(tag, pos, len) == [pos |-> pos, len |-> len % 65536, tag |-> tag]

push_node(p, node) == [p |-> [p EXCEPT !.nodes = Append(@, node)], id |-> Len(p.nodes)]

push_value(p, value) == [p |-> [p EXCEPT !.values = Append(@, value)], id |-> Len(p.values)]

tok_value(p, tok) == SubSeq(p.buf, tok.pos + 1, tok.pos + tok.len)

tok_values(p) == [i \in 1..Len(p.tokens) |-> tok_value(p, p.tokens[i])]

next(p) ==
  IF p.pos < Len(p.buf)
  THEN Some(p.buf[p.pos + 1], [p EXCEPT !.pos = @ + 1])
  ELSE None(p)

save(p) == [pos |-> p.pos, len_toks |-> Len(p.tokens), len_nodes |-> Len(p.nodes)]

rollback(p, state) ==
  [p EXCEPT !.pos = state.pos,
            !.tokens = Truncate(@, state.len_toks),
            !.nodes = Truncate(@, state.len_nodes)]

\* char::is_whitespace, on the characters of the model
is_whitespace(c) == c \in {" ", "\t", "\n", "\r"}

\* the while loop of match_ws: reads on until an item is not whitespace
RECURSIVE match_ws_loop(_)
match_ws_loop(p) ==
  LET item == next(p)
  IN IF item.ok /\ is_whitespace(item.v) THEN match_ws_loop(item.p) ELSE item.p

match_ws(p) ==
  LET first == next(p)
  IN IF first.ok /\ is_whitespace(first.v)
     THEN LET q == match_ws_loop(first.p)
          IN Some(first.v, IF q.pos # Len(q.buf) THEN [q EXCEPT !.pos = @ - 1] ELSE q)
     ELSE None(first.p)

char(needle, p) ==
  LET item == next(p)
  IN IF ~item.ok THEN None(item.p)
     ELSE IF item.v = needle THEN Some(needle, item.p) ELSE None(item.p)

not_char(needle, p) ==
  LET item == next(p)
  IN IF ~item.ok THEN None(item.p)
     ELSE IF item.v # needle THEN Some(needle, item.p) ELSE None(item.p)

\* scan_string with char as the rule of the first character too
RECURSIVE string(_, _)
string(needle, p) ==
  IF needle = <<>> THEN None(p)
  ELSE LET res == char(Head(needle), p)
       IN IF ~res.ok \/ Len(needle) = 1 THEN res ELSE string(Tail(needle), res.p)

class(chars, p) ==
  LET item == next(p)
  IN IF ~item.ok THEN None(item.p)
     ELSE IF item.v \in chars THEN Some(item.v, item.p) ELSE None(item.p)

LowerLetters ==
  <<"a", "b", "c", "d", "e", "f", "g", "h", "i", "j", "k", "l", "m",
    "n", "o", "p", "q", "r", "s", "t", "u", "v", "w", "x", "y", "z">>
UpperLetters ==
  <<"A", "B", "C", "D", "E", "F", "G", "H", "I", "J", "K", "L", "M",
    "N", "O", "P", "Q", "R", "S", "T", "U", "V", "W", "X", "Y", "Z">>

Range(s) == {s[i] : i \in DOMAIN s}

to_lowercase(c) ==
  IF c \in Range(UpperLetters)
  THEN LowerLetters[CHOOSE i \in DOMAIN UpperLetters : UpperLetters[i] = c]
  ELSE c

class_caseins(chars, p) ==
  LET item == next(p)
  IN IF ~item.ok THEN None(item.p)
     ELSE IF item.v \in chars \/ to_lowercase(item.v) \in chars
          THEN Some(item.v, item.p) ELSE None(item.p)

Digits == {"0", "1", "2", "3", "4", "5", "6", "7", "8", "9"}

\* ------------------------------------------------------------------------
\* Parser combinators.  A rule (a closure of the source) is a record
\* [r |-> name] or [r |-> name, a |-> argument]; Apply calls it.
\* ------------------------------------------------------------------------

RECURSIVE Apply(_, _)

R(name) == [r |-> name]
RA(name, a) == [r |-> name, a |-> a]

push_tok(tag, rule, p) ==
  LET res == Apply(rule, p)
  IN IF res.ok
     THEN [res EXCEPT !.p.tokens = Append(@, Token(tag, p.pos, res.p.pos - p.pos))]
     ELSE res

yield_tok(tag, rule, p) ==
  LET res == Apply(rule, p)
      tok == Token(tag, p.pos, res.p.pos - p.pos)
  IN IF res.ok
     THEN Some(tok, [res.p EXCEPT !.tokens = Append(@, tok)])
     ELSE None(res.p)

\* a variant of select_from that goes on from where a failed alternative stopped
RECURSIVE select_from_no_rollback(_, _, _, _)
select_from_no_rollback(rules, i, state, p) ==
  IF i > Len(rules) THEN NoNode(p)
  ELSE LET res == Apply(rules[i], p)
       IN IF res.ok THEN res
          ELSE select_from_no_rollback(rules, i + 1, state, res.p)

RECURSIVE select_from(_, _, _, _)
select_from(rules, i, state, p) ==
  IF i > Len(rules) THEN NoNode(p)
  ELSE LET res == Apply(rules[i], p)
       IN IF res.ok THEN res
          ELSE select_from(rules, i + 1, state, rollback(res.p, state))

select(rules, p) == select_from(rules, 1, save(p), p)

maybe(rule, p) ==
  LET state == save(p)
      res == Apply(rule, p)
  IN IF res.ok THEN res ELSE Some(NUL, [res.p EXCEPT !.pos = state.pos])

RECURSIVE zero_or_more_loop(_, _, _)
zero_or_more_loop(rule, p, last) ==
  LET res == Apply(rule, p)
  IN IF res.ok THEN zero_or_more_loop(rule, res.p, res.v)
     ELSE Some(last, rollback(res.p, save(p)))

zero_or_more(rule, p) == zero_or_more_loop(rule, p, NUL)

one_or_more(rule, p) ==
  LET res == Apply(rule, p)
  IN IF ~res.ok THEN res
     ELSE Some(res.v, zero_or_more(rule, res.p).p)

left(key, p) == p.memos[key]

\* a variant of leftpoline_loop that keeps the result of the first iteration
RECURSIVE leftpoline_loop_first(_, _, _, _, _, _)
leftpoline_loop_first(key, rule, p, state, saved, len_parsed) ==
  LET res == Apply(rule, p)
      new_len == res.p.pos - state.pos
      iter == [key |-> key, start |-> state.pos, first |-> ~saved.ok, seed |-> left(key, p),
               len_parsed |-> len_parsed, ok |-> res.ok, v |-> res.v, new_len |-> new_len]
      q == [res.p EXCEPT !.trace = Append(@, iter)]
  IN IF ~res.ok THEN [ok |-> saved.ok, v |-> saved.v, p |-> q]
     ELSE IF new_len <= len_parsed THEN [ok |-> saved.ok, v |-> saved.v, p |-> q]
     ELSE leftpoline_loop_first(key, rule,
            [q EXCEPT !.memos[key] = [ok |-> TRUE, v |-> res.v]],
            state, IF saved.ok THEN saved ELSE [ok |-> TRUE, v |-> res.v], new_len)

RECURSIVE leftpoline_loop(_, _, _, _, _, _)
leftpoline_loop(key, rule, p, state, saved, len_parsed) ==
  LET res == Apply(rule, p)
      new_len == res.p.pos - state.pos
      iter == [key |-> key, start |-> state.pos, first |-> ~saved.ok, seed |-> left(key, p),
               len_parsed |-> len_parsed, ok |-> res.ok, v |-> res.v, new_len |-> new_len]
      q == [res.p EXCEPT !.trace = Append(@, iter)]
  IN IF ~res.ok THEN [ok |-> saved.ok, v |-> saved.v, p |-> q]
     ELSE IF new_len <= len_parsed THEN [ok |-> saved.ok, v |-> saved.v, p |-> q]
     ELSE leftpoline_loop(key, rule,
            [q EXCEPT !.memos[key] = [ok |-> TRUE, v |-> res.v]],
            state, [ok |-> TRUE, v |-> res.v], new_len)

leftpoline(key, rule, p) == leftpoline_loop(key, rule, p, save(p), NoMemo, 0)

ws(p) == push_tok("WS", R("match_ws"), p)

maybe_ws(p) == maybe(R("ws"), p)

\* ------------------------------------------------------------------------
\* Decimal::from_str_radix(text, 10) on sign, digits and an optional fraction
\* ------------------------------------------------------------------------

DigitSeq == <<"0", "1", "2", "3", "4", "5", "6", "7", "8", "9">>

digit_value(c) == (CHOOSE i \in DOMAIN DigitSeq : DigitSeq[i] = c) - 1

RECURSIVE digits_value(_, _)
digits_value(s, acc) ==
  IF s = <<>> THEN acc ELSE digits_value(Tail(s), acc * 10 + digit_value(Head(s)))

RECURSIVE pow10(_)
pow10(k) == IF k = 0 THEN 1 ELSE 10 * pow10(k - 1)

all_digits(s) == \A i \in DOMAIN s : s[i] \in Digits

\* the position of the first '.', or 0
dot_pos(s) == IF \E i \in DOMAIN s : s[i] = "." THEN CHOOSE i \in DOMAIN s : s[i] = "." /\ \A j \in 1..(i - 1) : s[j] # "." ELSE 0

from_str_radix(text) ==
  LET neg == text # <<>> /\ Head(text) = "-"
      body == IF text # <<>> /\ Head(text) \in {"-", "+"} THEN Tail(text) ELSE text
      dot == dot_pos(body)
      ip == IF dot = 0 THEN body ELSE SubSeq(body, 1, dot - 1)
      fp == IF dot = 0 THEN <<>> ELSE SubSeq(body, dot + 1, Len(body))
      mag == Dec(digits_value(ip \o fp, 0), pow10(Len(fp)))
  IN IF Len(ip) + Len(fp) = 0 \/ ~all_digits(ip) \/ ~all_digits(fp)
     THEN [ok |-> FALSE, q |-> DecInt(0)]
     ELSE [ok |-> TRUE, q |-> IF neg THEN Dec(0 - mag.n, mag.d) ELSE mag]

\* ------------------------------------------------------------------------
\* Grammar rules
\* ------------------------------------------------------------------------

match_num_nonzero(p) ==
  LET a == maybe(RA("char", "-"), p)
      b == class(Digits \ {"0"}, a.p)
      c == zero_or_more(RA("class", Digits), b.p)
      d == maybe(RA("char", "."), c.p)
  IN IF ~b.ok THEN None(b.p) ELSE zero_or_more(RA("class", Digits), d.p)

match_num_zero(p) == char("0", p)

r_num(p) ==
  LET t == yield_tok("Num", RA("select", <<R("match_num_zero"), R("match_num_nonzero")>>), p)
      parsed == from_str_radix(tok_value(t.p, t.v))
      decval == IF parsed.ok THEN parsed.q ELSE DecInt(0)
      pv == push_value(t.p, Num(decval))
  IN IF ~t.ok THEN NoNode(t.p) ELSE Some(Leaf(pv.id), pv.p)

match_string(bookend, p) ==
  LET a == char(bookend, p)
      b == zero_or_more(RA("not_char", bookend), a.p)
      c == char(bookend, b.p)
  IN IF ~a.ok THEN None(a.p)
     ELSE IF ~c.ok THEN None(c.p) ELSE Some(bookend, c.p)

r_string(p) ==
  LET t == yield_tok("Str", RA("select", <<RA("match_string", "'"), RA("match_string", "\"")>>), p)
      body == SubSeq(t.p.buf, t.v.pos + 2, t.v.pos + t.v.len - 1)
      pv == push_value(t.p, Str(body))
  IN IF ~t.ok THEN NoNode(t.p) ELSE Some(Leaf(pv.id), pv.p)

match_bool(needle, value, p) ==
  LET t == yield_tok("KW", RA("string", needle), p)
      pv == push_value(t.p, Bool(value))
  IN IF ~t.ok THEN NoNode(t.p) ELSE Some(Leaf(pv.id), pv.p)

r_true(p) == match_bool(<<"t", "r", "u", "e">>, TRUE, p)

r_false(p) == match_bool(<<"f", "a", "l", "s", "e">>, FALSE, p)

r_bool(p) == select(<<R("r_true"), R("r_false")>>, p)

match_plus(p) == char("+", p)
match_minus(p) == char("-", p)
match_star(p) == char("*", p)
match_fslash(p) == char("/", p)

r_term_literal(p) == select(<<R("r_num"), R("r_string"), R("r_bool")>>, p)

match_lpar(p) == push_tok("LPar", RA("char", "("), p)
match_rpar(p) == push_tok("RPar", RA("char", ")"), p)

r_term_paren(p) ==
  LET a == match_lpar(p)
      expr == Apply(R("r_expr"), a.p)
      c == match_rpar(expr.p)
  IN IF ~a.ok THEN NoNode(a.p)
     ELSE IF ~expr.ok THEN NoNode(expr.p)
     ELSE IF ~c.ok THEN NoNode(c.p) ELSE Some(expr.v, c.p)

r_term_sym(p) ==
  LET t == yield_tok("Sym", RA("one_or_more", RA("class_caseins", Range(LowerLetters))), p)
      pv == push_value(t.p, Str(tok_value(t.p, t.v)))
  IN IF ~t.ok THEN NoNode(t.p) ELSE Some(Leaf(pv.id), pv.p)

r_term(p) == select(<<R("r_term_literal"), R("r_term_sym"), R("r_term_paren")>>, p)

match_binop(p) ==
  push_tok("Op", RA("select", <<R("match_plus"), R("match_minus"), R("match_star"), R("match_fslash")>>), p)

\* a variant of r_expr_binop whose right operand is a term, not an expression
r_expr_binop_term(p) ==
  LET lnode == r_term(p)
      left_ == push_node(lnode.p, lnode.v)
      w1 == maybe_ws(left_.p)
      op == match_binop(w1.p)
      w2 == maybe_ws(op.p)
      rnode == r_term(w2.p)
      right == push_node(rnode.p, rnode.v)
  IN IF ~lnode.ok THEN NoNode(lnode.p)
     ELSE IF ~op.ok THEN NoNode(op.p)
     ELSE IF ~rnode.ok THEN NoNode(rnode.p)
     ELSE Some(BinOp(op.v, left_.id, right.id), right.p)

r_expr_binop(p) ==
  LET lnode == r_term(p)
      left_ == push_node(lnode.p, lnode.v)
      w1 == maybe_ws(left_.p)
      op == match_binop(w1.p)
      w2 == maybe_ws(op.p)
      rnode == Apply(R("r_expr"), w2.p)
      right == push_node(rnode.p, rnode.v)
  IN IF ~lnode.ok THEN NoNode(lnode.p)
     ELSE IF ~op.ok THEN NoNode(op.p)
     ELSE IF ~rnode.ok THEN NoNode(rnode.p)
     ELSE Some(BinOp(op.v, left_.id, right.id), right.p)

\* ObjectContext::get_node of the parser: indexing outside the arena panics
get_node(p, id) ==
  IF id >= 0 /\ id < Len(p.nodes)
  THEN [p |-> p, node |-> p.nodes[id + 1]]
  ELSE [p |-> [p EXCEPT !.panic = TRUE], node |-> Zero]

RECURSIVE cons_list(_, _, _, _)
cons_list(p, lnode, left_, right) ==
  IF lnode.k = "List" /\ lnode.len = LIST_ELEMS /\ lnode.link = NoLink
  THEN LET empty_node == List(ZeroElems, 0, NoLink)
           empty == push_node(p, empty_node)
           link == cons_list(empty.p, empty_node, empty.id, right)
           pushed == push_node(link.p, link.node)
       IN [p |-> pushed.p, node |-> List(lnode.elems, LIST_ELEMS + 1, pushed.id)]
  ELSE IF lnode.k = "List" /\ lnode.link # NoLink
  THEN LET orig_link == get_node(p, lnode.link)
           new_link_node == cons_list(orig_link.p, orig_link.node, lnode.link, right)
           new_link == push_node(new_link_node.p, new_link_node.node)
       IN [p |-> new_link.p, node |-> List(lnode.elems, lnode.len + 1, new_link.id)]
  ELSE IF lnode.k = "List"
  THEN IF lnode.len < LIST_ELEMS
       THEN [p |-> p, node |-> List([lnode.elems EXCEPT ![lnode.len + 1] = right], lnode.len + 1, lnode.link)]
       ELSE [p |-> [p EXCEPT !.panic = TRUE], node |-> Zero]
  ELSE [p |-> p, node |-> List([ZeroElems EXCEPT ![1] = left_, ![2] = right], 2, NoLink)]

match_list_left_rec(p) ==
  LET lnode == left(rule_key("expr"), p)
      left_ == push_node(p, lnode.v)
      w1 == maybe_ws(left_.p)
      comma == char(",", w1.p)
      w2 == maybe_ws(comma.p)
      rnode == r_term(w2.p)
      right == push_node(rnode.p, rnode.v)
      consed == cons_list(right.p, lnode.v, left_.id, right.id)
  IN IF ~lnode.ok THEN NoNode(p)
     ELSE IF ~comma.ok THEN NoNode(comma.p)
     ELSE IF ~rnode.ok THEN NoNode(rnode.p)
     ELSE Some(consed.node, consed.p)

r_expr_list(p) == match_list_left_rec(p)

\* cb is the node shape the closure of the caller builds: "Index" or "Addr"
\* a variant of match_compound that hands the closure its subscripts in the other order
match_compound_swapped(start, end, cb, p) ==
  LET a == push_tok(start[2], RA("char", start[1]), p)
      w == maybe_ws(a.p)
      inner == Apply(R("r_expr"), w.p)
      pushed == push_node(inner.p, inner.v)
      isList == inner.v.k = "List"
      row == IF isList THEN inner.v.elems[1] ELSE pushed.id
      col == IF isList THEN inner.v.elems[2] ELSE 0
      q == IF isList THEN inner.p ELSE pushed.p
      e == push_tok(end[2], RA("char", end[1]), q)
  IN IF ~a.ok THEN NoNode(a.p)
     ELSE IF ~inner.ok THEN NoNode(inner.p)
     ELSE IF ~e.ok THEN NoNode(e.p)
     ELSE Some(IF cb = "Index" THEN Index(col, row) ELSE Addr(col, row), e.p)

match_compound(start, end, cb, p) ==
  LET a == push_tok(start[2], RA("char", start[1]), p)
      w == maybe_ws(a.p)
      inner == Apply(R("r_expr"), w.p)
      pushed == push_node(inner.p, inner.v)
      isList == inner.v.k = "List"
      row == IF isList THEN inner.v.elems[1] ELSE pushed.id
      col == IF isList THEN inner.v.elems[2] ELSE 0
      q == IF isList THEN inner.p ELSE pushed.p
      e == push_tok(end[2], RA("char", end[1]), q)
  IN IF ~a.ok THEN NoNode(a.p)
     ELSE IF ~inner.ok THEN NoNode(inner.p)
     ELSE IF ~e.ok THEN NoNode(e.p)
     ELSE Some(IF cb = "Index" THEN Index(row, col) ELSE Addr(row, col), e.p)

r_expr_index(p) == match_compound(<<"[", "LBck">>, <<"]", "RBck">>, "Index", p)

r_expr_addr(p) == match_compound(<<"{", "LBrc">>, <<"}", "RBrc">>, "Addr", p)

r_expr_lookup(p) == r_term_sym(p)

match_expr(p) ==
  LET w1 == maybe_ws(p)
      res == select(<<R("r_expr_binop"), R("r_expr_list"), R("r_term"),
                      R("r_expr_lookup"), R("r_expr_index"), R("r_expr_addr")>>, w1.p)
      w2 == maybe_ws(res.p)
  IN IF ~res.ok THEN NoNode(res.p) ELSE Some(res.v, w2.p)

r_expr(p) == leftpoline(rule_key("expr"), R("match_expr"), p)

Apply(rule, p) ==
  CASE rule.r = "char" -> char(rule.a, p)
    [] rule.r = "not_char" -> not_char(rule.a, p)
    [] rule.r = "class" -> class(rule.a, p)
    [] rule.r = "class_caseins" -> class_caseins(rule.a, p)
    [] rule.r = "string" -> string(rule.a, p)
    [] rule.r = "select" -> select(rule.a, p)
    [] rule.r = "one_or_more" -> one_or_more(rule.a, p)
    [] rule.r = "match_ws" -> match_ws(p)
    [] rule.r = "ws" -> ws(p)
    [] rule.r = "match_num_zero" -> match_num_zero(p)
    [] rule.r = "match_num_nonzero" -> match_num_nonzero(p)
    [] rule.r = "match_string" -> match_string(rule.a, p)
    [] rule.r = "match_plus" -> match_plus(p)
    [] rule.r = "match_minus" -> match_minus(p)
    [] rule.r = "match_star" -> match_star(p)
    [] rule.r = "match_fslash" -> match_fslash(p)
    [] rule.r = "r_num" -> r_num(p)
    [] rule.r = "r_string" -> r_string(p)
    [] rule.r = "r_true" -> r_true(p)
    [] rule.r = "r_false" -> r_false(p)
    [] rule.r = "r_bool" -> r_bool(p)
    [] rule.r = "r_term_literal" -> r_term_literal(p)
    [] rule.r = "r_term_sym" -> r_term_sym(p)
    [] rule.r = "r_term_paren" -> r_term_paren(p)
    [] rule.r = "r_term" -> r_term(p)
    [] rule.r = "r_expr_binop" -> r_expr_binop(p)
    [] rule.r = "r_expr_list" -> r_expr_list(p)
    [] rule.r = "r_expr_lookup" -> r_expr_lookup(p)
    [] rule.r = "r_expr_index" -> r_expr_index(p)
    [] rule.r = "r_expr_addr" -> r_expr_addr(p)
    [] rule.r = "match_expr" -> match_expr(p)
    [] rule.r = "r_expr" -> r_expr(p)

\* Parser::scan
scan_tokens(res) ==
  [ok |-> res.ok, tokens |-> IF res.ok THEN tok_values(res.p) ELSE <<>>, p |-> res.p]

scan(p) == scan_tokens(r_expr(p))

\* Parser::parse
parse(p) == r_expr(p)

\* ------------------------------------------------------------------------
\* Value conversions and arithmetic (cell.rs, eval.rs)
\* ------------------------------------------------------------------------

\* truncation toward zero: Decimal::to_i64, f64 as i64
trunc(q) ==
  IF ~is_finite(q) THEN 0
  ELSE IF q.n >= 0 THEN q.n \div q.d ELSE 0 - ((0 - q.n) \div q.d)

\* str::parse::<i64>: an optional sign and at least one digit, nothing else
str_parse_i64(s) ==
  LET body == IF s # <<>> /\ Head(s) \in {"-", "+"} THEN Tail(s) ELSE s
      mag == digits_value(body, 0)
  IN IF body = <<>> \/ ~all_digits(body) THEN [ok |-> FALSE, i |-> 0]
     ELSE [ok |-> TRUE, i |-> IF Head(s) = "-" THEN 0 - mag ELSE mag]

\* impl From<Val> for i64; ok = FALSE is the panic of unwrap() on a Str
val_to_i64(value) ==
  CASE value.t = "Num" -> [ok |-> TRUE, i |-> trunc(value.q)]
    [] value.t = "Bool" -> [ok |-> TRUE, i |-> IF value.b THEN 1 ELSE 0]
    [] value.t = "Float" -> [ok |-> TRUE, i |-> trunc(value.q)]
    [] value.t = "Int" -> [ok |-> TRUE, i |-> value.i]
    [] value.t = "Str" -> str_parse_i64(value.s)
    [] OTHER -> [ok |-> TRUE, i |-> 0]

\* impl From<&Val> for Decimal
val_to_decimal(value) ==
  CASE value.t = "Num" -> value.q
    [] value.t = "Bool" -> IF value.b THEN DecInt(1) ELSE DecInt(0)
    [] value.t = "Float" -> IF is_finite(value.q) THEN value.q ELSE DecInt(0)
    [] value.t = "Int" -> DecInt(value.i)
    [] value.t = "Str" -> LET r == from_str_radix(value.s) IN IF r.ok THEN r.q ELSE DecInt(0)
    [] OTHER -> DecInt(0)

RECURSIVE nat_to_string(_)
nat_to_string(n) ==
  IF n < 10 THEN <<DigitSeq[n + 1]>> ELSE Append(nat_to_string(n \div 10), DigitSeq[(n % 10) + 1])

\* the smallest scale k with d | 10^k (d has only the prime factors 2 and 5 here)
RECURSIVE scale_of(_, _)
scale_of(d, k) == IF pow10(k) % d = 0 \/ k >= 9 THEN k ELSE scale_of(d, k + 1)

RECURSIVE pad_left(_, _)
pad_left(s, n) == IF Len(s) >= n THEN s ELSE pad_left(<<"0">> \o s, n)

\* Decimal::to_string / f64::to_string at the smallest scale
dec_to_string(q) ==
  LET k == scale_of(q.d, 0)
      m == (Abs(q.n) * pow10(k)) \div q.d
      ip == nat_to_string(m \div pow10(k))
      fp == pad_left(nat_to_string(m % pow10(k)), k)
      mag == IF k = 0 THEN ip ELSE ip \o <<".">> \o fp
  IN IF q.n < 0 THEN <<"-">> \o mag ELSE mag

RECURSIVE join(_, _)
join(strs, sep) ==
  IF strs = <<>> THEN <<>>
  ELSE IF Len(strs) = 1 THEN strs[1]
  ELSE strs[1] \o sep \o join(Tail(strs), sep)

\* f64::to_string
f64_to_string(q) == IF is_finite(q) THEN dec_to_string(q) ELSE <<"N", "a", "N">>

\* value.chunks(2)
chunks2(value) ==
  [k \in 1..((Len(value) + 1) \div 2) |->
     SubSeq(value, 2 * k - 1, IF 2 * k <= Len(value) THEN 2 * k ELSE Len(value))]

\* impl ToString for Val
RECURSIVE val_to_string(_)
val_to_string(value) ==
  CASE value.t = "Num" -> dec_to_string(value.q)
    [] value.t = "Bool" -> IF value.b THEN <<"t", "r", "u", "e">> ELSE <<"f", "a", "l", "s", "e">>
    [] value.t = "Float" -> f64_to_string(value.q)
    [] value.t = "Int" -> IF value.i < 0 THEN <<"-">> \o nat_to_string(0 - value.i) ELSE nat_to_string(value.i)
    [] value.t = "Str" -> value.s
    [] value.t = "List" -> join([i \in DOMAIN value.elems |-> val_to_string(value.elems[i])], <<",">>)
    [] value.t = "Array" -> join([i \in DOMAIN value.value |-> val_to_string(value.value[i])], <<",">>)
    [] value.t = "Record" ->
         LET pairs == chunks2(value.value)
         IN join([k \in DOMAIN pairs |->
                    join([i \in DOMAIN pairs[k] |-> val_to_string(pairs[k][i])], <<":">>)], <<",">>)

\* impl From<Val> for String; ok = FALSE is panic!("to_string not impl")
val_into_string(value) ==
  IF value.t \in {"Array", "Record"} THEN [ok |-> FALSE, s |-> <<>>]
  ELSE [ok |-> TRUE, s |-> val_to_string(value)]

\* the closure f of Node::eval; ok = FALSE is the panic of a division by zero
apply_op(op, l, r) ==
  CASE op = "+" -> [ok |-> TRUE, q |-> Dec(l.n * r.d + r.n * l.d, l.d * r.d)]
    [] op = "-" -> [ok |-> TRUE, q |-> Dec(l.n * r.d - r.n * l.d, l.d * r.d)]
    [] op = "*" -> [ok |-> TRUE, q |-> Dec(l.n * r.n, l.d * r.d)]
    [] op = "/" -> IF r.n = 0 THEN [ok |-> FALSE, q |-> DecInt(0)]
                   ELSE [ok |-> TRUE, q |-> Dec(l.n * r.d, l.d * r.n)]
    [] OTHER -> [ok |-> TRUE, q |-> DecInt(0)]

\* Decimal::from_f64(f).unwrap() where f has no Decimal
from_f64_unwrap_panics == [ok |-> FALSE, val |-> ValDefault]

\* the match (left, right) of Node::eval for a BinOp
binop_dispatch(op, left_, right) ==
  LET lt == left_.t
      rt == right.t
      scalar(l, r) == LET res == apply_op(op, l, r) IN [ok |-> res.ok, val |-> Num(res.q)]
  IN CASE lt = "List" /\ rt = "Num" ->
            [ok |-> \A i \in DOMAIN left_.elems : apply_op(op, val_to_decimal(left_.elems[i]), right.q).ok,
             val |-> ListVal([i \in DOMAIN left_.elems |->
                       Num(apply_op(op, val_to_decimal(left_.elems[i]), right.q).q)])]
       [] lt = "Num" /\ rt = "List" ->
            [ok |-> \A i \in DOMAIN right.elems : apply_op(op, left_.q, val_to_decimal(right.elems[i])).ok,
             val |-> ListVal([i \in DOMAIN right.elems |->
                       Num(apply_op(op, left_.q, val_to_decimal(right.elems[i])).q)])]
       [] lt = "Num" /\ rt = "Num" -> scalar(left_.q, right.q)
       [] lt = "Num" /\ rt = "Int" -> scalar(left_.q, DecInt(right.i))
       [] lt = "Int" /\ rt = "Num" -> scalar(DecInt(left_.i), right.q)
       [] lt = "Num" /\ rt = "Float" ->
            IF is_finite(right.q) THEN scalar(left_.q, right.q) ELSE from_f64_unwrap_panics
       [] lt = "Float" /\ rt = "Num" ->
            IF is_finite(left_.q) THEN scalar(left_.q, right.q) ELSE from_f64_unwrap_panics
       [] lt = "Num" /\ rt = "Bool" -> scalar(left_.q, val_to_decimal(right))
       [] lt = "Bool" /\ rt = "Num" -> scalar(val_to_decimal(left_), right.q)
       [] OTHER -> [ok |-> TRUE, val |-> Num(DecInt(0))]

\* ------------------------------------------------------------------------
\* State
\* ------------------------------------------------------------------------

VARIABLES
  tile,             \* the Tile: tag, rows, cols, cells, deps (nodes, edges), lookup
  status,           \* "ok", or how the process died: "panic", "overflow"
  overflow_checks,  \* the build profile: TRUE when integer overflow panics
  last,             \* history: the last operation and what it did
  updates,          \* history: the number of update_cell commands so far
  input,            \* the text handed to a Parser
  parser,           \* the Parser after Parser::new or Parser::parse
  result,           \* what parse and eval returned for input
  board,            \* the Board: next_tag and the tiles by tag (tile is its tile 0 where a board is at work)
  reference         \* history: the value the grammar gives input when input is an arithmetic formula

vars == <<tile, status, overflow_checks, last, updates, input, parser, result, board, reference>>

\* ------------------------------------------------------------------------
\* Addresses (handle.rs, tile.rs).  A usize is held as the signed integer
\* it is congruent to: a negative number x stands for 2^64 + x, and a
\* negative CellId x for 2^32 + x.
\* ------------------------------------------------------------------------

\* the capacity of a tile (constants.rs), scaled down for the exploration
COL_MAX == 4
ROW_MAX == 5

CellIds == 0..(ROW_MAX * COL_MAX - 1)

\* whether (row * COL_MAX) + col leaves the range of usize
usize_overflows(col, row) ==
  \/ row < 0 /\ COL_MAX >= 2
  \/ row >= 0 /\ col < 0 /\ (row * COL_MAX) + col >= 0

\* a variant of pos_to_index that packs the column where the row belongs
pos_to_index_transposed(col, row) == (col * COL_MAX) + row

pos_to_index(col, row) == (row * COL_MAX) + col

index_to_pos(index) == [col |-> index % COL_MAX, row |-> index \div COL_MAX]

\* ok = FALSE: the arithmetic overflowed in a build that checks it
pos_to_cellid(pos) ==
  LET col == pos[1]
      row == IF Len(pos) >= 2 THEN pos[2] ELSE 0
  IN [ok |-> ~(overflow_checks /\ usize_overflows(col, row)), id |-> pos_to_index(col, row)]

Pos(pos) == [kind |-> "Pos", pos |-> pos]
Label(labels) == [kind |-> "Label", labels |-> labels]
Id(cellid) == [kind |-> "Id", id |-> cellid]

\* Tile::new: the labels A.. and 1..
lbls ==
  [i \in 1..(COL_MAX + ROW_MAX) |->
     IF i <= COL_MAX THEN <<UpperLetters[i]>> ELSE nat_to_string(i - COL_MAX)]

\* a variant of pos_for that keeps the place of a row label in lbls
pos_for_raw(labels) ==
  [i \in DOMAIN labels |->
     IF \E n \in DOMAIN lbls : lbls[n] = labels[i]
     THEN (CHOOSE m \in DOMAIN lbls : lbls[m] = labels[i] /\ \A j \in 1..(m - 1) : lbls[j] # labels[i]) - 1
     ELSE 0]

pos_for(labels) ==
  [i \in DOMAIN labels |->
     IF \E n \in DOMAIN lbls : lbls[n] = labels[i]
     THEN LET n == (CHOOSE m \in DOMAIN lbls : lbls[m] = labels[i] /\ \A j \in 1..(m - 1) : lbls[j] # labels[i]) - 1
          IN IF n < COL_MAX THEN n ELSE n - COL_MAX
     ELSE 0]

resolve(cellref) ==
  CASE cellref.kind = "Pos" -> pos_to_cellid(cellref.pos)
    [] cellref.kind = "Label" -> pos_to_cellid(pos_for(cellref.labels))
    [] cellref.kind = "Id" -> [ok |-> TRUE, id |-> cellref.id]

\* ------------------------------------------------------------------------
\* Tile (tile.rs).  An operation returns [st, t]: st = "panic" when it
\* panicked, t the tile as the operation left it.  t.trace is history: the
\* eval_cell calls and the context reads of the running operation.
\* ------------------------------------------------------------------------

CellDefault == [value |-> ValDefault, formula |-> <<>>, style |-> <<>>]

EmptyMap == [c \in {} |-> 0]

Tile_new(tag) ==
  [tag |-> tag, rows |-> 0, cols |-> 0,
   cells |-> [c \in CellIds |-> CellDefault],
   deps |-> [nodes |-> <<>>, edges |-> <<>>],
   lookup |-> EmptyMap,
   trace |-> <<>>]

\* StableGraph::add_node
add_node(deps, weight) == [deps |-> [deps EXCEPT !.nodes = Append(@, weight)], ix |-> Len(deps.nodes)]

\* StableGraph::add_edge: parallel edges and loops are kept
add_edge(deps, a, b) == [deps EXCEPT !.edges = Append(@, <<a, b>>)]

\* the targets of the edges leaving ix, the newest edge first
RECURSIVE neighbors_from(_, _, _)
neighbors_from(deps, ix, i) ==
  IF i = 0 THEN <<>>
  ELSE IF deps.edges[i][1] = ix
       THEN <<deps.edges[i][2]>> \o neighbors_from(deps, ix, i - 1)
       ELSE neighbors_from(deps, ix, i - 1)

neighbors(deps, ix) == neighbors_from(deps, ix, Len(deps.edges))

\* HashMap::entry(k).or_insert_with
or_insert(map, k, v) ==
  IF k \in DOMAIN map THEN map
  ELSE [c \in DOMAIN map \cup {k} |-> IF c = k THEN v ELSE map[c]]

get_cell_by_id(t, cell) ==
  IF cell \in CellIds THEN [st |-> "ok", cell |-> t.cells[cell]]
  ELSE [st |-> "panic", cell |-> CellDefault]

\* a variant of set_cell_by_id that grows cols by the row and rows by the column
set_cell_by_id_swapped(t, cell, data) ==
  LET pos == index_to_pos(cell)
      added == add_node(t.deps, cell)
      t1 == [t EXCEPT !.cols = IF pos.row >= @ THEN pos.row + 1 ELSE @,
                      !.rows = IF pos.col >= @ THEN pos.col + 1 ELSE @,
                      !.deps = added.deps,
                      !.lookup = or_insert(@, cell, added.ix)]
  IN IF cell \in CellIds
     THEN [st |-> "ok", t |-> [t1 EXCEPT !.cells[cell] = data]]
     ELSE [st |-> "panic", t |-> t1]

\* a variant of set_cell_by_id that stores the data of the first write only
set_cell_by_id_once(t, cell, data) ==
  LET pos == index_to_pos(cell)
      added == add_node(t.deps, cell)
      t1 == [t EXCEPT !.cols = IF pos.col >= @ THEN pos.col + 1 ELSE @,
                      !.rows = IF pos.row >= @ THEN pos.row + 1 ELSE @,
                      !.deps = added.deps,
                      !.lookup = or_insert(@, cell, added.ix)]
  IN IF cell \in CellIds
     THEN [st |-> "ok", t |-> IF cell \in DOMAIN t.lookup THEN t1 ELSE [t1 EXCEPT !.cells[cell] = data]]
     ELSE [st |-> "panic", t |-> t1]

set_cell_by_id(t, cell, data) ==
  LET pos == index_to_pos(cell)
      added == add_node(t.deps, cell)
      t1 == [t EXCEPT !.cols = IF pos.col >= @ THEN pos.col + 1 ELSE @,
                      !.rows = IF pos.row >= @ THEN pos.row + 1 ELSE @,
                      !.deps = added.deps,
                      !.lookup = or_insert(@, cell, added.ix)]
  IN IF cell \in CellIds
     THEN [st |-> "ok", t |-> [t1 EXCEPT !.cells[cell] = data]]
     ELSE [st |-> "panic", t |-> t1]

cell_deps(t, cellref) ==
  LET cellid == resolve(cellref)
  IN IF ~cellid.ok \/ cellid.id \notin DOMAIN t.lookup
     THEN [st |-> "panic", deps |-> <<>>]
     ELSE LET ns == neighbors(t.deps, t.lookup[cellid.id])
          IN [st |-> "ok", deps |-> [i \in DOMAIN ns |-> t.deps.nodes[ns[i] + 1]]]

get_cell(t, cellref) ==
  LET cellid == resolve(cellref)
  IN IF ~cellid.ok THEN [st |-> "panic", cell |-> CellDefault]
     ELSE get_cell_by_id(t, cellid.id)

set_cell(t, cellref, data) ==
  LET cellid == resolve(cellref)
  IN IF ~cellid.ok THEN [st |-> "panic", t |-> t]
     ELSE set_cell_by_id(t, cellid.id, data)

track_dep(t, downstream, upstream) ==
  LET down == resolve(downstream)
      up == resolve(upstream)
  IN IF ~down.ok \/ ~up.ok THEN [st |-> "panic", t |-> t]
     ELSE IF up.id \notin DOMAIN t.lookup \/ down.id \notin DOMAIN t.lookup
     THEN [st |-> "panic", t |-> t]
     ELSE [st |-> "ok", t |-> [t EXCEPT !.deps = add_edge(@, t.lookup[up.id], t.lookup[down.id])]]

\* impl TileContext for TileState: the read of a cell during the evaluation of cell
TileState_get_cell(t, cell, cref) ==
  LET tracked == track_dep(t, Id(cell), cref)
      got == get_cell(tracked.t, cref)
      read == [e |-> "read", down |-> cell, up |-> resolve(cref).id, value |-> got.cell.value]
  IN IF tracked.st # "ok" THEN [st |-> "panic", t |-> tracked.t, cell |-> CellDefault]
     ELSE IF got.st # "ok" THEN [st |-> "panic", t |-> tracked.t, cell |-> CellDefault]
     ELSE [st |-> "ok", t |-> [tracked.t EXCEPT !.trace = Append(@, read)], cell |-> got.cell]

\* Tile::update_cell with the closure |cell| Cell{ <f.field>: <f.to>, ..cell }
update_cell(t, cellref, f) ==
  LET cellid == resolve(cellref)
      old == get_cell_by_id(t, cellid.id)
      new == [old.cell EXCEPT ![f.field] = f.to]
  IN IF ~cellid.ok \/ old.st # "ok" THEN [st |-> "panic", t |-> t]
     ELSE set_cell_by_id(t, cellid.id, new)

\* ------------------------------------------------------------------------
\* Node::eval (eval.rs) under the context of tile.rs: nodes and values come
\* from the arena of parser p, cells from the tile t on behalf of cell.
\* The result is [st, val, t].
\* ------------------------------------------------------------------------

RECURSIVE eval(_, _, _, _)
RECURSIVE eval_elems(_, _, _, _, _, _)

Dead(st, t) == [st |-> st, val |-> ValDefault, t |-> t]

\* the map over elems.iter().take(n), in order
eval_elems(elems, i, n, p, cell, t) ==
  IF i > n THEN [st |-> "ok", vals |-> <<>>, t |-> t]
  ELSE LET nd == get_node(p, elems[i])
           hd == eval(nd.node, p, cell, t)
           tl == eval_elems(elems, i + 1, n, p, cell, hd.t)
       IN IF nd.p.panic THEN [st |-> "panic", vals |-> <<>>, t |-> t]
          ELSE IF hd.st # "ok" THEN [st |-> hd.st, vals |-> <<>>, t |-> hd.t]
          ELSE [st |-> tl.st, vals |-> <<hd.val>> \o tl.vals, t |-> tl.t]

eval_Leaf(node, p, cell, t) ==
  IF node.value >= 0 /\ node.value < Len(p.values)
  THEN [st |-> "ok", val |-> p.values[node.value + 1], t |-> t]
  ELSE Dead("panic", t)

eval_BinOp(node, p, cell, t) ==
  LET lnode == get_node(p, node.lhs)
      rnode == get_node(p, node.rhs)
      left_ == eval(lnode.node, p, cell, t)
      right == eval(rnode.node, p, cell, left_.t)
      res == binop_dispatch(node.op, left_.val, right.val)
  IN IF lnode.p.panic \/ rnode.p.panic THEN Dead("panic", t)
     ELSE IF left_.st # "ok" THEN Dead(left_.st, left_.t)
     ELSE IF right.st # "ok" THEN Dead(right.st, right.t)
     ELSE IF ~res.ok THEN Dead("panic", right.t)
     ELSE [st |-> "ok", val |-> res.val, t |-> right.t]

\* a variant of eval_List that returns the inline slab and never follows link
eval_List_inline(node, p, cell, t) ==
  LET clamped_len == IF node.len < LIST_ELEMS THEN node.len ELSE LIST_ELEMS
      vals == eval_elems(node.elems, 1, clamped_len, p, cell, t)
  IN IF vals.st # "ok" THEN Dead(vals.st, vals.t)
     ELSE [st |-> "ok", val |-> ListVal(vals.vals), t |-> vals.t]

eval_List(node, p, cell, t) ==
  LET clamped_len == IF node.len < LIST_ELEMS THEN node.len ELSE LIST_ELEMS
      vals == eval_elems(node.elems, 1, clamped_len, p, cell, t)
      link == get_node(p, node.link)
      rest == eval(link.node, p, cell, vals.t)
  IN IF vals.st # "ok" THEN Dead(vals.st, vals.t)
     ELSE IF node.len > clamped_len
     THEN IF node.link = NoLink \/ link.p.panic THEN Dead("panic", vals.t)
          ELSE IF rest.st # "ok" THEN Dead(rest.st, rest.t)
          ELSE [st |-> "ok",
                val |-> ListVal(IF rest.val.t = "List" THEN vals.vals \o rest.val.elems ELSE vals.vals),
                t |-> rest.t]
     ELSE [st |-> "ok", val |-> ListVal(vals.vals), t |-> vals.t]

\* a variant of eval_Index that hands the context [c, r]
eval_Index_col_row(node, p, cell, t) ==
  LET row == get_node(p, node.row)
      col == get_node(p, node.col)
      rv == eval(row.node, p, cell, t)
      r == val_to_i64(rv.val)
      cv == eval(col.node, p, cell, rv.t)
      c == val_to_i64(cv.val)
      got == TileState_get_cell(cv.t, cell, Pos(<<c.i, r.i>>))
  IN IF row.p.panic \/ col.p.panic THEN Dead("panic", t)
     ELSE IF rv.st # "ok" THEN Dead(rv.st, rv.t)
     ELSE IF ~r.ok THEN Dead("panic", rv.t)
     ELSE IF cv.st # "ok" THEN Dead(cv.st, cv.t)
     ELSE IF ~c.ok THEN Dead("panic", cv.t)
     ELSE [st |-> got.st, val |-> got.cell.value, t |-> got.t]

eval_Index(node, p, cell, t) ==
  LET row == get_node(p, node.row)
      col == get_node(p, node.col)
      rv == eval(row.node, p, cell, t)
      r == val_to_i64(rv.val)
      cv == eval(col.node, p, cell, rv.t)
      c == val_to_i64(cv.val)
      got == TileState_get_cell(cv.t, cell, Pos(<<r.i, c.i>>))
  IN IF row.p.panic \/ col.p.panic THEN Dead("panic", t)
     ELSE IF rv.st # "ok" THEN Dead(rv.st, rv.t)
     ELSE IF ~r.ok THEN Dead("panic", rv.t)
     ELSE IF cv.st # "ok" THEN Dead(cv.st, cv.t)
     ELSE IF ~c.ok THEN Dead("panic", cv.t)
     ELSE [st |-> got.st, val |-> got.cell.value, t |-> got.t]

eval_Addr(node, p, cell, t) ==
  LET row == get_node(p, node.row)
      col == get_node(p, node.col)
      rv == eval(row.node, p, cell, t)
      cv == eval(col.node, p, cell, rv.t)
      r == val_into_string(rv.val)
      c == val_into_string(cv.val)
      got == TileState_get_cell(cv.t, cell, Label(<<r.s, c.s>>))
  IN IF row.p.panic \/ col.p.panic THEN Dead("panic", t)
     ELSE IF rv.st # "ok" THEN Dead(rv.st, rv.t)
     ELSE IF ~r.ok THEN Dead("panic", rv.t)
     ELSE IF cv.st # "ok" THEN Dead(cv.st, cv.t)
     ELSE IF ~c.ok THEN Dead("panic", cv.t)
     ELSE [st |-> got.st, val |-> got.cell.value, t |-> got.t]

eval(node, p, cell, t) ==
  CASE node.k = "Leaf" -> eval_Leaf(node, p, cell, t)
    [] node.k = "BinOp" -> eval_BinOp(node, p, cell, t)
    [] node.k = "List" -> eval_List(node, p, cell, t)
    [] node.k = "Index" -> eval_Index(node, p, cell, t)
    [] node.k = "Addr" -> eval_Addr(node, p, cell, t)
    [] OTHER -> [st |-> "ok", val |-> ValDefault, t |-> t]

\* ------------------------------------------------------------------------
\* The formulas the updates draw from, and the formulas Board::example seeds
\* ------------------------------------------------------------------------

F_sum == <<"[", "0", ",", "0", "]", "+", "[", "1", ",", "0", "]">>  \* [0,0]+[1,0]
F_ten == <<"1", "0">>  \* 10
F_lpar == <<"(">>  \* (
F_inc == <<"1", "+", "[", "0", ",", "0", "]">>  \* 1+[0,0]
F_00 == <<"[", "0", ",", "0", "]">>  \* [0,0]
F_20 == <<"[", "2", ",", "0", "]">>  \* [2,0]
F_missing == <<"1", "+", "[", "3", ",", "3", "]">>  \* 1+[3,3]
F_sym == <<"[", "a", "]">>  \* [a]
F_oob == <<"[", "9", ",", "9", "]">>  \* [9,9]
F_alias == <<"[", "5", ",", "0", "]">>  \* [5,0]
F_neg == <<"[", "-", "1", ",", "1", "]">>  \* [-1,1]
F_div0 == <<"1", "/", "0">>  \* 1/0

Formulas == {F_sum, F_ten, F_lpar, F_inc, F_00, F_20, F_missing, F_sym, F_oob, F_alias, F_neg, F_div0}


\* ------------------------------------------------------------------------
\* Tile::eval_cell (tile.rs).  stack holds the cells whose eval_cell has not
\* returned.  Edges are never removed and formulas do not change during a
\* propagation, so a call that re-enters a cell of the stack walks the same
\* chain of edges again and cannot return: st = "overflow" stands for the
\* end of that recursion, the exhaustion of the stack unless a panic comes
\* first.  The result is [st, t, some, cell].
\* ------------------------------------------------------------------------

RECURSIVE eval_cell(_, _, _)
RECURSIVE propagate(_, _, _, _)

EvalDead(st, t) == [st |-> st, t |-> t, some |-> FALSE, cell |-> CellDefault]

\* .map(|c| self.set_cell_by_id(dep, c)) has returned set
propagate_set(set, deps, i, stack) ==
  IF set.st # "ok" THEN [st |-> set.st, t |-> set.t]
  ELSE propagate(set.t, deps, i + 1, stack)

\* self.eval_cell(tile, dep) has returned r
propagate_step(r, deps, i, stack) ==
  IF r.st # "ok" THEN [st |-> r.st, t |-> r.t]
  ELSE IF ~r.some THEN propagate(r.t, deps, i + 1, stack)
  ELSE propagate_set(set_cell_by_id(r.t, deps[i], r.cell), deps, i, stack)

\* for dep in deps { self.eval_cell(tile, dep).map(|c| self.set_cell_by_id(dep, c)); }
propagate(t, deps, i, stack) ==
  IF i > Len(deps) THEN [st |-> "ok", t |-> t]
  ELSE propagate_step(eval_cell(t, Id(deps[i]), stack), deps, i, stack)

\* the loop over deps has returned rest: Some(cell)
eval_cell_return(rest, cell) == [st |-> rest.st, t |-> rest.t, some |-> TRUE, cell |-> cell]

\* cell_deps has returned deps and set_cell has returned set
eval_cell_commit(t, deps, set, cell, stack) ==
  IF deps.st # "ok" THEN EvalDead(deps.st, t)
  ELSE IF set.st # "ok" THEN EvalDead(set.st, set.t)
  ELSE eval_cell_return(propagate(set.t, deps.deps, 1, stack), cell)

\* a variant of eval_cell_evaluated that re-evaluates the dependents before it
\* writes the new value of the cell
eval_cell_evaluated_late(res, cellid, cell, stack) ==
  IF res.st # "ok" THEN EvalDead(res.st, res.t)
  ELSE LET deps == cell_deps(res.t, Id(cellid))
           rest == propagate(res.t, deps.deps, 1, stack \cup {cellid})
           set == set_cell(rest.t, Id(cellid), [cell EXCEPT !.value = res.val])
       IN IF deps.st # "ok" THEN EvalDead(deps.st, res.t)
          ELSE IF rest.st # "ok" THEN EvalDead(rest.st, rest.t)
          ELSE [st |-> set.st, t |-> set.t, some |-> TRUE, cell |-> [cell EXCEPT !.value = res.val]]

\* node.eval has returned res
eval_cell_evaluated(res, cellid, cell, stack) ==
  IF res.st # "ok" THEN EvalDead(res.st, res.t)
  ELSE eval_cell_commit(res.t, cell_deps(res.t, Id(cellid)),
                        set_cell(res.t, Id(cellid), [cell EXCEPT !.value = res.val]),
                        [cell EXCEPT !.value = res.val], stack \cup {cellid})

\* the None arm of the match
eval_cell_failed(failed) == [st |-> failed.st, t |-> failed.t, some |-> FALSE, cell |-> CellDefault]

\* p.parse() has returned parsed
eval_cell_parsed(t, parsed, cellid, cell, stack) ==
  IF parsed.p.panic THEN EvalDead("panic", t)
  ELSE IF parsed.ok
  THEN eval_cell_evaluated(eval(parsed.v, parsed.p, cellid, t), cellid, cell, stack)
  ELSE eval_cell_failed(update_cell(t, Id(cellid), [field |-> "value", to |-> Str(ErrorStr)]))

\* resolve has returned cellid and get_cell_by_id has returned got
eval_cell_resolved(t, cellid, got, stack) ==
  IF ~cellid.ok \/ got.st # "ok" THEN EvalDead("panic", t)
  ELSE IF cellid.id \in stack THEN EvalDead("overflow", t)
  ELSE eval_cell_parsed([t EXCEPT !.trace = Append(@, [e |-> "eval", cell |-> cellid.id])],
                        parse(Parser_new(got.cell.formula)), cellid.id, got.cell, stack)

eval_cell_at(t, cellid, stack) == eval_cell_resolved(t, cellid, get_cell_by_id(t, cellid.id), stack)

eval_cell(t, cref, stack) == eval_cell_at(t, resolve(cref), stack)

\* the update_cell command of the recalc driver: store the formula, then eval_cell
update_cell_stored(stored, pos) ==
  IF stored.st # "ok" THEN EvalDead(stored.st, stored.t)
  ELSE eval_cell(stored.t, Pos(pos), {})

update_cell_command(t, pos, formula) ==
  update_cell_stored(update_cell(t, Pos(pos), [field |-> "formula", to |-> formula]), pos)

\* impl From<f64> for Cell, From<bool> for Cell, From<Vec<f64>> for Cell
Cell_from_f64(q) == [value |-> Float(q), formula |-> val_to_string(Float(q)), style |-> <<>>]

Cell_from_bool(b) == [value |-> Bool(b), formula |-> val_to_string(Bool(b)), style |-> <<>>]

Cell_from_vec(qs) ==
  LET values == [i \in DOMAIN qs |-> Float(qs[i])]
  IN [value |-> ListVal(values),
      formula |-> join([i \in DOMAIN values |-> val_to_string(values[i])], <<",">>),
      style |-> <<>>]

\* Board::set_pos on the one tile of the board
set_pos(t, pos, data) == set_cell(t, Pos(pos), data).t

\* Board::example
Board_example ==
  LET t0 == Tile_new(0)
      t1 == set_pos(t0, <<0, 0>>, Cell_from_f64(DecInt(2)))
      t2 == set_pos(t1, <<0, 1>>, Cell_from_f64(Dec(35, 2)))
      t3 == set_pos(t2, <<0, 2>>, Cell_from_f64(Dec(189, 5)))
      t4 == set_pos(t3, <<1, 0>>, Cell_from_f64(DecInt(3)))
      t5 == set_pos(t4, <<1, 1>>, Cell_from_vec(<<DecInt(1), DecInt(2)>>))
  IN set_pos(t5, <<1, 2>>, Cell_from_bool(TRUE))

\* Board::default
Board_default == [next_tag |-> 0, tiles |-> EmptyMap]

\* Tag::next
Tag_next(tag) == tag + 1

\* a variant of add_tile that leaves next_tag as it was
add_tile_same_tag(b) ==
  [board |-> [next_tag |-> b.next_tag,
              tiles |-> [k \in DOMAIN b.tiles \cup {b.next_tag} |->
                           IF k = b.next_tag THEN Tile_new(b.next_tag) ELSE b.tiles[k]]],
   tag |-> b.next_tag]

\* Board::add_tile: the board it leaves and the tag it returns
add_tile(b) ==
  [board |-> [next_tag |-> Tag_next(b.next_tag),
              tiles |-> [k \in DOMAIN b.tiles \cup {b.next_tag} |->
                           IF k = b.next_tag THEN Tile_new(b.next_tag) ELSE b.tiles[k]]],
   tag |-> b.next_tag]

\* Board::set_pos: nothing when the board has no tile of this tag
Board_set_pos(b, tag, pos, data) ==
  IF tag \in DOMAIN b.tiles THEN [b EXCEPT !.tiles[tag] = set_pos(@, pos, data)] ELSE b

\* Board::get_pos: the default cell when the board has no tile of this tag
Board_get_pos(b, tag, pos) ==
  IF tag \in DOMAIN b.tiles THEN get_cell(b.tiles[tag], Pos(pos)).cell ELSE CellDefault

\* Board::len
Board_len(b) == Cardinality(DOMAIN b.tiles)

\* ------------------------------------------------------------------------
\* The board with its one tile: Board::example and the update_cell command
\* ------------------------------------------------------------------------

\* bounds of the exploration
MaxUpdates == 2

UpdateCells == {<<0, 0>>, <<2, 0>>}

\* evaluated is history: the cells eval_cell was entered for so far
NoOp == [op |-> "none", pos |-> <<>>, formula |-> <<>>, trace |-> <<>>, pre |-> Tile_new(0), evaluated |-> {}]

NoResult == [done |-> "none"]

NoReference == [arith |-> FALSE]

Init ==
  /\ tile = Tile_new(0)
  /\ status = "ok"
  /\ overflow_checks \in BOOLEAN
  /\ last = NoOp
  /\ updates = 0
  /\ input = <<>>
  /\ parser = Parser_new(<<>>)
  /\ result = NoResult
  /\ board = [add_tile(Board_default).board EXCEPT !.tiles[0] = tile]
  /\ reference = NoReference

\* Board::example on a fresh board
example ==
  /\ status = "ok"
  /\ tile = Tile_new(0)
  /\ tile' = Board_example
  /\ last' = [NoOp EXCEPT !.op = "example", !.pre = tile]
  /\ board' = [board EXCEPT !.tiles[0] = tile']
  /\ UNCHANGED <<status, overflow_checks, updates, input, parser, result, reference>>

\* the update_cell command has returned r
update_returns(r, pos, formula) ==
  /\ tile' = [r.t EXCEPT !.trace = <<>>]
  /\ status' = r.st
  /\ last' = [op |-> "update", pos |-> pos, formula |-> formula, trace |-> r.t.trace, pre |-> tile,
              evaluated |-> last.evaluated \cup
                {r.t.trace[i].cell : i \in {j \in DOMAIN r.t.trace : r.t.trace[j].e = "eval"}}]

\* the update_cell command with a position and a formula
update ==
  /\ status = "ok"
  /\ updates < MaxUpdates
  /\ updates' = updates + 1
  /\ \E pos \in UpdateCells, formula \in Formulas :
       update_returns(update_cell_command(tile, pos, formula), pos, formula)
  /\ board' = [board EXCEPT !.tiles[0] = tile']
  /\ UNCHANGED <<overflow_checks, input, parser, result, reference>>

Next == example \/ update

Spec == Init /\ [][Next]_vars

\* ------------------------------------------------------------------------
\* A parser on its own: Parser::new(input), Parser::parse, then Node::eval
\* of the result with no cell to read (parser.rs, test_parse_eval_math)
\* ------------------------------------------------------------------------

\* bounds of the exploration
MaxLen == 3
MaxArithLen == 5

Alphabet == {"1", "0", "+", "(", ")", ",", "[", "]", " "}

Strings == UNION {[1..n -> Alphabet] : n \in 0..MaxLen}

\* the arithmetic formulas of the grammar, each with the value its derivation
\* gives it: v.ok = FALSE when the derivation divides by zero
Ops == {"+", "-", "*", "/"}

Lit(s) ==
  [s |-> s,
   v |-> [ok |-> TRUE,
          q |-> DecInt(IF Head(s) = "-" THEN 0 - digits_value(Tail(s), 0) ELSE digits_value(s, 0))]]

ArithLiterals == {Lit(<<"0">>), Lit(<<"1">>), Lit(<<"2">>), Lit(<<"3">>), Lit(<<"-", "1">>), Lit(<<"1", "0">>)}

\* term := '(' expr ')'
Paren(e) == [s |-> <<"(">> \o e.s \o <<")">>, v |-> e.v]

\* binop := term op expr
Bin(t, op, e) ==
  [s |-> t.s \o <<op>> \o e.s,
   v |-> IF t.v.ok /\ e.v.ok THEN apply_op(op, t.v.q, e.v.q) ELSE [ok |-> FALSE, q |-> DecInt(0)]]

RECURSIVE ArithExprs(_)
RECURSIVE ArithTerms(_)

\* the terms and the expressions of exactly n characters
ArithTerms(n) ==
  {x \in ArithLiterals : Len(x.s) = n} \cup (IF n >= 3 THEN {Paren(e) : e \in ArithExprs(n - 2)} ELSE {})

ArithExprs(n) ==
  ArithTerms(n) \cup
  UNION {{Bin(t, op, e) : t \in ArithTerms(i), op \in Ops, e \in ArithExprs(n - 1 - i)} : i \in 1..(n - 2)}

\* "3*7*(1+1)/2"
Scenario1 ==
  Bin(Lit(<<"3">>), "*", Bin(Lit(<<"7">>), "*",
      Bin(Paren(Bin(Lit(<<"1">>), "+", Lit(<<"1">>))), "/", Lit(<<"2">>))))

ArithFormulas == UNION {ArithExprs(n) : n \in 1..MaxArithLen} \cup {Scenario1}

\* subscripts: "[1,2]", "{a,Z}" and the longer lists "[1,2,3]", "{a,b,c}", "[1,2,3,4]"
Subscripts ==
  {<<"[", "1", ",", "2", "]">>, <<"{", "a", ",", "Z", "}">>,
   <<"[", "1", ",", "2", ",", "3", "]">>, <<"{", "a", ",", "b", ",", "c", "}">>,
   <<"[", "1", ",", "2", ",", "3", ",", "4", "]">>}

\* an expression in parentheses after a list has begun: 1,(,2)
Nested == {<<"1", ",", "(", ",", "2", ")">>}

ParseInputs ==
  {[s |-> x.s, v |-> [arith |-> TRUE, ok |-> x.v.ok, q |-> x.v.q]] : x \in ArithFormulas}
  \cup {[s |-> s, v |-> NoReference] :
          s \in {z \in Strings \cup Subscripts \cup Nested : \A x \in ArithFormulas : x.s # z}}

InitParse ==
  /\ \E x \in ParseInputs :
       /\ input = x.s
       /\ reference = x.v
       /\ parser = Parser_new(x.s)
  /\ result = NoResult
  /\ board = Board_default
  /\ tile = Tile_new(0)
  /\ status = "ok"
  /\ overflow_checks \in BOOLEAN
  /\ last = NoOp
  /\ updates = 0

\* p.parse() has returned r
parse_returns(r) ==
  /\ parser' = r.p
  /\ result' = [done |-> "parsed", ok |-> r.ok, node |-> r.v, pos |-> r.p.pos, panic |-> r.p.panic]

\* Parser::parse
DoParse ==
  /\ result.done = "none"
  /\ parse_returns(parse(parser))
  /\ UNCHANGED <<tile, status, overflow_checks, last, updates, input, board, reference>>

\* node.eval(ctx) has returned r
eval_returns(r) ==
  result' = [done |-> "evaluated", ok |-> TRUE, node |-> result.node, pos |-> result.pos,
             panic |-> r.st # "ok", val |-> r.val]

\* Node::eval of the node parse returned, in a context that has no cell to give
DoEval ==
  /\ result.done = "parsed"
  /\ result.ok
  /\ ~result.panic
  /\ eval_returns(eval(result.node, parser, 0, Tile_new(0)))
  /\ UNCHANGED <<tile, status, overflow_checks, last, updates, input, parser, board, reference>>

\* p.scan() has returned r
scan_returns(r) ==
  /\ parser' = r.p
  /\ result' = [done |-> "scanned", ok |-> r.ok, tokens |-> r.tokens, pos |-> r.p.pos, panic |-> r.p.panic]

\* Parser::scan
DoScan ==
  /\ result.done = "none"
  /\ scan_returns(scan(parser))
  /\ UNCHANGED <<tile, status, overflow_checks, last, updates, input, board, reference>>

NextParse == DoParse \/ DoEval

SpecParse == InitParse /\ [][NextParse]_vars

\* scanning the same inputs
NextScan == DoScan

SpecScan == InitParse /\ [][NextScan]_vars

\* ------------------------------------------------------------------------
\* List literals: Parser::parse and Node::eval on comma-separated scalar terms
\* ------------------------------------------------------------------------

\* the longest list literal explored
MaxListLen == 17

\* a scalar term and the value it stands for
Term(s, v) == [s |-> s, v |-> v]

NumTerm(i) == Term(nat_to_string(i), Num(DecInt(i)))

\* the scalar terms the literals are built from, by kind of literal
TermPool ==
  <<NumTerm(1), Term(<<"t", "r", "u", "e">>, Bool(TRUE)), Term(<<"\"", "a", "\"">>, Str(<<"a">>)),
    Term(<<"-", "2">>, Num(DecInt(0 - 2))), Term(<<"1", ".", "5">>, Num(Dec(3, 2))),
    Term(<<"f", "a", "l", "s", "e">>, Bool(FALSE)), NumTerm(0)>>

\* the i-th term of the literal of a kind: 1, 2, 3, ... or the pool from an offset
TermAt(kind, i) ==
  IF kind = 0 THEN NumTerm(i) ELSE TermPool[((kind + i) % Len(TermPool)) + 1]

\* list := expr ',' term (',' term)*
RECURSIVE ListText(_, _)
ListText(kind, n) ==
  IF n = 1 THEN TermAt(kind, 1).s ELSE ListText(kind, n - 1) \o <<",">> \o TermAt(kind, n).s

ListKinds == {0, 1, 4}

ListInputs ==
  {[s |-> ListText(kind, n),
    v |-> [arith |-> FALSE, n |-> n, vals |-> [i \in 1..n |-> TermAt(kind, i).v]]] :
     kind \in ListKinds, n \in 2..MaxListLen}

InitList ==
  /\ \E x \in ListInputs :
       /\ input = x.s
       /\ reference = x.v
       /\ parser = Parser_new(x.s)
  /\ result = NoResult
  /\ board = Board_default
  /\ tile = Tile_new(0)
  /\ status = "ok"
  /\ overflow_checks \in BOOLEAN
  /\ last = NoOp
  /\ updates = 0

SpecList == InitList /\ [][NextParse]_vars

\* ------------------------------------------------------------------------
\* Values: Node::eval of one BinOp over two leaves, and the conversions of
\* cell.rs, on values of every variant
\* ------------------------------------------------------------------------

ScalarVals ==
  {Num(DecInt(0)), Num(DecInt(2)), Num(Dec(0 - 3, 2)),
   IntVal(0), IntVal(3), Float(Dec(1, 2)), Float(DecInt(0)), Float(NaN),
   Bool(TRUE), Bool(FALSE),
   Str(<<>>), Str(<<"a">>), Str(<<"7">>), Str(<<"-", "2">>), Str(<<"1", ".", "5">>)}

AggregateVals ==
  {ListVal(<<>>),
   ListVal(<<Num(DecInt(4)), IntVal(2), Bool(TRUE)>>),
   ListVal(<<Float(Dec(1, 2)), Str(<<"a">>), Num(DecInt(0))>>),
   ListVal(<<Num(DecInt(1)), ListVal(<<Num(DecInt(2))>>)>>),
   ArrayVal(<<Num(DecInt(1)), Num(DecInt(2))>>, <<2>>),
   RecordVal(<<Str(<<"k">>), Num(DecInt(1))>>, 1)}

Vals == ScalarVals \cup AggregateVals

\* the arena of test_eval_basics: two leaves, NodeId(1) and NodeId(2)
Arena(l, r) ==
  LET v1 == push_value(Parser_new(<<>>), l)
      v2 == push_value(v1.p, r)
      n1 == push_node(v2.p, Leaf(v1.id))
  IN push_node(n1.p, Leaf(v2.id)).p

InitVal ==
  /\ \E op \in Ops, l \in Vals, r \in Vals :
       /\ reference = [arith |-> FALSE, op |-> op, left |-> l, right |-> r]
       /\ parser = Arena(l, r)
  /\ input = <<>>
  /\ result = NoResult
  /\ board = Board_default
  /\ tile = Tile_new(0)
  /\ status = "ok"
  /\ overflow_checks \in BOOLEAN
  /\ last = NoOp
  /\ updates = 0

\* an operation on the values has returned: how it ended and what it gave
value_returns(done, panic, out) ==
  /\ result' = [done |-> done, panic |-> panic, out |-> out]
  /\ UNCHANGED <<tile, status, overflow_checks, last, updates, input, parser, board, reference>>

binop_returns(r) == value_returns("binop", r.st # "ok", r.val)

\* Node::eval of BinOp{op, lhs: NodeId(1), rhs: NodeId(2)}
DoBinOp ==
  /\ result.done = "none"
  /\ binop_returns(eval(BinOp(reference.op, 1, 2), parser, 0, tile))

i64_returns(r) == value_returns("i64", ~r.ok, r.i)

\* i64::from(left)
DoInto_i64 ==
  /\ result.done = "none"
  /\ i64_returns(val_to_i64(reference.left))

string_returns(r) == value_returns("string", ~r.ok, r.s)

\* String::from(left)
DoIntoString ==
  /\ result.done = "none"
  /\ string_returns(val_into_string(reference.left))

\* Decimal::from(&left)
DoIntoDecimal ==
  /\ result.done = "none"
  /\ value_returns("decimal", FALSE, val_to_decimal(reference.left))

NextVal == DoBinOp \/ DoInto_i64 \/ DoIntoString \/ DoIntoDecimal

SpecVal == InitVal /\ [][NextVal]_vars

\* ------------------------------------------------------------------------
\* Cell writes: Tile::set_cell and Tile::get_cell on a fresh tile, by
\* position, by label and by id
\* ------------------------------------------------------------------------

\* the longest sequence of writes explored
MaxWrites == 3

\* a cell reference and the position it names
Ref(ref, col, row) == [ref |-> ref, col |-> col, row |-> row]

TileRefs ==
  {Ref(Pos(<<0, 0>>), 0, 0), Ref(Pos(<<2>>), 2, 0), Ref(Pos(<<1, 2>>), 1, 2),
   Ref(Pos(<<COL_MAX - 1, ROW_MAX - 1>>), COL_MAX - 1, ROW_MAX - 1),
   Ref(Label(<<<<"B">>, <<"2">>>>), 1, 1), Ref(Label(<<<<"A">>>>), 0, 0),
   Ref(Id(pos_to_index(2, 1)), 2, 1)}

TileData == {Cell_from_f64(DecInt(1)), Cell_from_bool(TRUE)}

InitTile ==
  /\ tile = Tile_new(0)
  /\ status = "ok"
  /\ overflow_checks \in BOOLEAN
  /\ last = NoOp
  /\ updates = 0
  /\ input = <<>>
  /\ parser = Parser_new(<<>>)
  /\ result = NoResult
  /\ board = Board_default
  /\ reference = [arith |-> FALSE, written |-> {}]

\* set_cell(x.ref, data) has returned r
set_cell_returns(r, x, data) ==
  /\ tile' = r.t
  /\ status' = r.st
  /\ last' = [op |-> "set_cell", ref |-> x.ref, pos |-> <<x.col, x.row>>, data |-> data, pre |-> tile]
  /\ reference' = [reference EXCEPT !.written = @ \cup {<<x.col, x.row>>}]

\* Tile::set_cell
SetCell ==
  /\ status = "ok"
  /\ updates < MaxWrites
  /\ updates' = updates + 1
  /\ \E x \in TileRefs, data \in TileData : set_cell_returns(set_cell(tile, x.ref, data), x, data)
  /\ result' = NoResult
  /\ UNCHANGED <<overflow_checks, input, parser, board>>

\* get_cell(last.ref) has returned r
get_cell_returns(r) == result' = [done |-> "got", st |-> r.st, cell |-> r.cell]

\* Tile::get_cell with the reference of the last write
GetCell ==
  /\ status = "ok"
  /\ last.op = "set_cell"
  /\ result.done = "none"
  /\ get_cell_returns(get_cell(tile, last.ref))
  /\ UNCHANGED <<tile, status, overflow_checks, last, updates, input, parser, board, reference>>

NextTile == SetCell \/ GetCell

SpecTile == InitTile /\ [][NextTile]_vars

\* ------------------------------------------------------------------------
\* Packing: pos_to_index and index_to_pos on the positions and the indices
\* of a tile
\* ------------------------------------------------------------------------

InitAddr ==
  /\ \E col \in 0..(COL_MAX - 1), row \in 0..(ROW_MAX - 1), i \in CellIds :
       reference = [arith |-> FALSE, col |-> col, row |-> row, index |-> i]
  /\ tile = Tile_new(0)
  /\ status = "ok"
  /\ overflow_checks \in BOOLEAN
  /\ last = NoOp
  /\ updates = 0
  /\ input = <<>>
  /\ parser = Parser_new(<<>>)
  /\ result = NoResult
  /\ board = Board_default

addr_returns(done, index, pos) ==
  /\ result' = [done |-> done, index |-> index, pos |-> pos]
  /\ UNCHANGED <<tile, status, overflow_checks, last, updates, input, parser, board, reference>>

\* index_to_pos(pos_to_index(col, row))
PosRoundTrip ==
  /\ result.done = "none"
  /\ addr_returns("pos", pos_to_index(reference.col, reference.row),
                  index_to_pos(pos_to_index(reference.col, reference.row)))

\* pos_to_index(index_to_pos(i))
IndexRoundTrip ==
  /\ result.done = "none"
  /\ addr_returns("index",
                  pos_to_index(index_to_pos(reference.index).col, index_to_pos(reference.index).row),
                  index_to_pos(reference.index))

NextAddr == PosRoundTrip \/ IndexRoundTrip

SpecAddr == InitAddr /\ [][NextAddr]_vars

\* ------------------------------------------------------------------------
\* Resolution: Tile::resolve of the label and of the position of one cell
\* ------------------------------------------------------------------------

\* the labels of column c and of row r: "A".. and "1"..
ColLabel(c) == <<UpperLetters[c + 1]>>
RowLabel(r) == nat_to_string(r + 1)

resolve_returns(done, by_label, by_pos) ==
  /\ result' = [done |-> done, by_label |-> by_label, by_pos |-> by_pos]
  /\ UNCHANGED <<tile, status, overflow_checks, last, updates, input, parser, board, reference>>

\* resolve(["B", "2"]) and resolve([1, 1])
ResolvePair ==
  /\ result.done = "none"
  /\ resolve_returns("pair", resolve(Label(<<ColLabel(reference.col), RowLabel(reference.row)>>)),
                     resolve(Pos(<<reference.col, reference.row>>)))

\* resolve(["B"]) and resolve([1])
ResolveColumn ==
  /\ result.done = "none"
  /\ resolve_returns("column", resolve(Label(<<ColLabel(reference.col)>>)), resolve(Pos(<<reference.col>>)))

NextLabel == ResolvePair \/ ResolveColumn

SpecLabel == InitAddr /\ [][NextLabel]_vars

\* ------------------------------------------------------------------------
\* A board and its tiles: Board::add_tile, Board::set_pos, Board::get_pos
\* and Board::len from Board::default on
\* ------------------------------------------------------------------------

\* the longest sequence of changes to the board explored
MaxBoardOps == 4

\* the tags handed to set_pos and get_pos: of tiles the board has and has not
BoardTags == 0..MaxBoardOps

BoardPositions == {<<0, 0>>, <<1, 2>>}

InitBoard ==
  /\ board = Board_default
  /\ reference = [arith |-> FALSE, issued |-> <<>>]
  /\ tile = Tile_new(0)
  /\ status = "ok"
  /\ overflow_checks \in BOOLEAN
  /\ last = NoOp
  /\ updates = 0
  /\ input = <<>>
  /\ parser = Parser_new(<<>>)
  /\ result = NoResult

\* add_tile has returned r
add_tile_returns(r) ==
  /\ board' = r.board
  /\ reference' = [reference EXCEPT !.issued = Append(@, r.tag)]
  /\ result' = [done |-> "add_tile", tag |-> r.tag]

\* Board::add_tile
AddTile ==
  /\ updates < MaxBoardOps
  /\ updates' = updates + 1
  /\ add_tile_returns(add_tile(board))
  /\ UNCHANGED <<tile, status, overflow_checks, last, input, parser>>

\* Board::set_pos
SetPos ==
  /\ updates < MaxBoardOps
  /\ updates' = updates + 1
  /\ \E tag \in BoardTags, pos \in BoardPositions :
       /\ board' = Board_set_pos(board, tag, pos, Cell_from_bool(TRUE))
       /\ result' = [done |-> "set_pos", tag |-> tag, pos |-> pos]
  /\ UNCHANGED <<tile, status, overflow_checks, last, input, parser, reference>>

\* Board::get_pos
GetPos ==
  /\ result.done \in {"add_tile", "set_pos"}
  /\ \E pos \in BoardPositions :
       result' = [done |-> "get_pos", tag |-> result.tag, pos |-> pos,
                  cell |-> Board_get_pos(board, result.tag, pos)]
  /\ UNCHANGED <<tile, status, overflow_checks, last, updates, input, parser, board, reference>>

\* Board::len
BoardLen ==
  /\ result.done \in {"add_tile", "set_pos"}
  /\ result' = [done |-> "len", len |-> Board_len(board)]
  /\ UNCHANGED <<tile, status, overflow_checks, last, updates, input, parser, board, reference>>

NextBoard == AddTile \/ SetPos \/ GetPos \/ BoardLen

SpecBoard == InitBoard /\ [][NextBoard]_vars

\* ------------------------------------------------------------------------
\* A subscript on the example tile: Node::eval of Index{row: NodeId(1),
\* col: NodeId(2)} for a cell of Board::example (eval.rs, test_eval_index)
\* ------------------------------------------------------------------------

\* the values of the two subscripts
SubscriptVals ==
  {Num(DecInt(k)) : k \in 0..2} \cup {IntVal(k) : k \in 0..2}
    \cup {Float(Dec(3, 2)), Bool(TRUE), Str(<<"2">>), Str(<<"a">>)}

\* the cells evaluated: [0, 0] and [1, 0]
IndexCells == {pos_to_index(0, 0), pos_to_index(1, 0)}

InitIndex ==
  /\ overflow_checks \in BOOLEAN
  /\ \E rv \in SubscriptVals, cv \in SubscriptVals, cell \in IndexCells :
       /\ reference = [arith |-> FALSE, row |-> rv, col |-> cv, cell |-> cell]
       /\ parser = Arena(rv, cv)
  /\ tile = Board_example
  /\ board = [add_tile(Board_default).board EXCEPT !.tiles[0] = Board_example]
  /\ status = "ok"
  /\ last = NoOp
  /\ updates = 0
  /\ input = <<>>
  /\ result = NoResult

\* node.eval(state) has returned r
index_returns(r) ==
  /\ result' = [done |-> "index", panic |-> r.st # "ok", out |-> r.val]
  /\ tile' = [r.t EXCEPT !.trace = <<>>]
  /\ status' = r.st
  /\ last' = [NoOp EXCEPT !.op = "index", !.trace = r.t.trace, !.pre = tile]

\* Node::eval of the Index node
EvalIndex ==
  /\ result.done = "none"
  /\ index_returns(eval(Index(1, 2), parser, reference.cell, tile))
  /\ board' = [board EXCEPT !.tiles[0] = tile']
  /\ UNCHANGED <<overflow_checks, updates, input, parser, reference>>

NextIndex == EvalIndex

SpecIndex == InitIndex /\ [][NextIndex]_vars

\* ------------------------------------------------------------------------
\* An ordered choice on its own: Parser::select with a list of rules at the
\* start of the bounded inputs
\* ------------------------------------------------------------------------

\* the lists of alternatives: of r_term and of match_expr, and two that
\* open with an alternative that consumes before it fails
SelectRules ==
  {<<R("r_term_literal"), R("r_term_sym"), R("r_term_paren")>>,
   <<R("r_expr_binop"), R("r_expr_list"), R("r_term"), R("r_expr_lookup"), R("r_expr_index"), R("r_expr_addr")>>,
   <<R("r_term_paren"), R("r_expr_index"), R("r_num")>>,
   <<R("r_expr_index"), R("r_expr_addr")>>}

\* select(rules) has returned r; at is the ParseState at the call
select_returns(r, rules, at) ==
  /\ parser' = r.p
  /\ result' = [done |-> "selected", rules |-> rules, ok |-> r.ok, v |-> r.v, at |-> at, after |-> save(r.p)]

\* Parser::select
DoSelect ==
  /\ result.done = "none"
  /\ \E rules \in SelectRules : select_returns(select(rules, parser), rules, save(parser))
  /\ UNCHANGED <<tile, status, overflow_checks, last, updates, input, board, reference>>

NextSelect == DoSelect

SpecSelect == InitParse /\ [][NextSelect]_vars

\* ------------------------------------------------------------------------
\* Whitespace on its own: Parser::ws and Parser::maybe_ws at every position
\* of the bounded strings (parser.rs, test_parser_basics)
\* ------------------------------------------------------------------------

\* Parser::new(input), then next() k times
InitWs ==
  /\ \E s \in Strings, k \in 0..MaxLen :
       /\ k <= Len(s)
       /\ input = s
       /\ parser = [Parser_new(s) EXCEPT !.pos = k]
       /\ reference = [arith |-> FALSE, from |-> k]
  /\ result = NoResult
  /\ board = Board_default
  /\ tile = Tile_new(0)
  /\ status = "ok"
  /\ overflow_checks \in BOOLEAN
  /\ last = NoOp
  /\ updates = 0

\* ws or maybe_ws has returned r
ws_returns(done, r) ==
  /\ parser' = r.p
  /\ result' = [done |-> done, ok |-> r.ok, v |-> r.v, pos |-> r.p.pos]
  /\ UNCHANGED <<tile, status, overflow_checks, last, updates, input, board, reference>>

\* Parser::ws
DoWs ==
  /\ result.done = "none"
  /\ ws_returns("ws", ws(parser))

\* Parser::maybe_ws
DoMaybeWs ==
  /\ result.done = "none"
  /\ ws_returns("maybe_ws", maybe_ws(parser))

NextWs == DoWs \/ DoMaybeWs

SpecWs == InitWs /\ [][NextWs]_vars

\* ------------------------------------------------------------------------
\* What the claims speak of
\* ------------------------------------------------------------------------

\* the cell an update addressed, and the value a position holds
Target == pos_to_index(last.pos[1], last.pos[2])

ValueAt(t, pos) == t.cells[pos_to_index(pos[1], pos[2])].value

\* the dep graph as pairs <<upstream cell, downstream cell>>
DepEdges(t) ==
  {<<t.deps.nodes[t.deps.edges[i][1] + 1], t.deps.nodes[t.deps.edges[i][2] + 1]>> : i \in DOMAIN t.deps.edges}

\* the cells the evaluation of cell c read through the context during the last operation
Reads(c) ==
  {last.trace[i].up : i \in {j \in DOMAIN last.trace : last.trace[j].e = "read" /\ last.trace[j].down = c}}

\* the cells eval_cell was entered for during the last operation
Evaluated == {last.trace[i].cell : i \in {j \in DOMAIN last.trace : last.trace[j].e = "eval"}}

Updated == last.op = "update"

Parses(formula) == parse(Parser_new(formula)).ok

\* scenario 4: the example tile, then update [2,0] with "[0,0]+[1,0]"
Scenario4 == Updated /\ last.pre = Board_example /\ last.pos = <<2, 0>> /\ last.formula = F_sum

Scenario4Tile == [update_cell_command(Board_example, <<2, 0>>, F_sum).t EXCEPT !.trace = <<>>]

\* scenario 5: after scenario 4, update [0,0] with "10"
Scenario5 == Updated /\ last.pos = <<0, 0>> /\ last.formula = F_ten /\ last.pre = Scenario4Tile

\* C1: after scenario 4 the value of [2,0] is Num(5) and the dep graph holds
\* the edges [0,0]->[2,0] and [1,0]->[2,0]
C1_Scenario4 ==
  Scenario4 =>
    /\ status = "ok"
    /\ ValueAt(tile, <<2, 0>>) = Num(DecInt(5))
    /\ {<<0, 2>>, <<1, 2>>} \subseteq DepEdges(tile)

\* scenario 4 as the code leaves it: [2,0] holds the value of [0,0] and the
\* dep graph has the one edge [0,0]->[2,0]
C1_Witness ==
  /\ Scenario4 /\ status = "ok"
  /\ ValueAt(tile, <<2, 0>>) = Float(DecInt(2))
  /\ DepEdges(tile) = {<<0, 2>>}

\* C2: an update that commits a value for a cell has re-evaluated every
\* outbound neighbour of that cell when it returns; after scenario 5 the
\* value of [2,0] is Num(13)
C2_Propagation ==
  /\ (Updated /\ status = "ok") =>
       \A d \in CellIds : <<Target, d>> \in DepEdges(tile) => d \in Evaluated \ {Target}
  /\ Scenario5 => (status = "ok" /\ ValueAt(tile, <<2, 0>>) = Num(DecInt(13)))

\* scenario 5 as the code leaves it: [2,0] was re-evaluated and holds Num(10)
C2_Witness ==
  /\ Scenario5 /\ status = "ok"
  /\ pos_to_index(2, 0) \in Evaluated
  /\ ValueAt(tile, <<2, 0>>) = Num(DecInt(10))

\* C3: after an update of a cell with a formula that parses, a cell u is an
\* upstream neighbour of the updated cell exactly when the evaluation of the
\* formula read u
C3_EdgesIffRead ==
  (Updated /\ status = "ok" /\ Parses(last.formula)) =>
    \A u \in CellIds : (<<u, Target>> \in DepEdges(tile)) <=> (u \in Reads(Target))

\* an edge of an earlier formula outlives it: u is upstream of the updated
\* cell and the formula did not read u
C3_Witness ==
  /\ Updated /\ status = "ok" /\ Parses(last.formula)
  /\ \E u \in CellIds : <<u, Target>> \in DepEdges(tile) /\ u \notin Reads(Target)

\* the cells reachable from the cells of S along the edges E
RECURSIVE Closure(_, _)
Closure(E, S) ==
  LET N == S \cup {e[2] : e \in {x \in E : x[1] \in S}}
  IN IF N = S THEN S ELSE Closure(E, N)

Downstream(t, c) == Closure(DepEdges(t), {e[2] : e \in {x \in DepEdges(t) : x[1] = c}})

Acyclic(t) == \A c \in CellIds : c \notin Downstream(t, c)

\* the last update read its own cell, directly or through the formulas of the cells downstream of it
ReadsOwnCell == \E u \in Reads(Target) : u = Target \/ u \in Downstream(last.pre, Target)

\* C4: the dep graph is acyclic after every committed update, and an update
\* whose formula reads its own cell is rejected with the dep graph as it was
C4_Acyclic ==
  Updated =>
    /\ status = "ok" => Acyclic(tile)
    /\ ReadsOwnCell => (status = "ok" /\ tile.deps = last.pre.deps)

\* the update that read its own cell did not return
C4_Witness == Updated /\ ReadsOwnCell /\ status = "overflow" /\ ~Acyclic(tile)

\* C5: "(" parses to none, and an update with a formula that fails to parse
\* records Str("error") and leaves the nodes and the edges of the dep graph as they were
C5_ParseFailure ==
  /\ ~Parses(F_lpar)
  /\ (Updated /\ ~Parses(last.formula)) =>
       /\ status = "ok"
       /\ tile.cells[Target].value = Str(ErrorStr)
       /\ tile.deps = last.pre.deps

\* the update with "(" left Str("error"), the edges as they were and more nodes than before
C5_Witness ==
  /\ Updated /\ last.formula = F_lpar /\ status = "ok"
  /\ tile.cells[Target].value = Str(ErrorStr)
  /\ tile.deps.edges = last.pre.deps.edges
  /\ Len(tile.deps.nodes) > Len(last.pre.deps.nodes)

\* C6: every update of an in-tile cell completes, and a subscript that is
\* out of bounds, negative or not a number leaves Str("error") in the cell
C6_NoUnwind ==
  Updated =>
    /\ status = "ok"
    /\ last.formula \in {F_oob, F_neg, F_sym} => tile.cells[Target].value = Str(ErrorStr)

\* the update with a subscript out of bounds panicked
C6_Witness == Updated /\ last.formula = F_oob /\ status = "panic"

\* C7: "1+[3,3]" on a tile where [3,3] was never written reads Num(0) for
\* [3,3] and completes
C7_MissingCell ==
  (Updated /\ last.formula = F_missing /\ pos_to_index(3, 3) \notin DOMAIN last.pre.lookup) =>
    /\ status = "ok"
    /\ \E i \in DOMAIN last.trace :
         last.trace[i] = [e |-> "read", down |-> Target, up |-> pos_to_index(3, 3), value |-> ValDefault]
    /\ tile.cells[Target].value = Num(DecInt(1))

\* the update with "1+[3,3]" panicked where [3,3] was never written
C7_Witness ==
  /\ Updated /\ last.formula = F_missing /\ pos_to_index(3, 3) \notin DOMAIN last.pre.lookup
  /\ status = "panic"

Values(t) == [c \in CellIds |-> t.cells[c].value]

\* the same update, issued again
Reissued == update_cell_command(tile, last.pos, last.formula)

\* C8: after an update that completed, the same update issued again
\* completes and leaves every cell's value as the first left it
C8_Idempotent ==
  (Updated /\ status = "ok") => (Reissued.st = "ok" /\ Values(Reissued.t) = Values(tile))

\* the first update changed the cell and the value of a dependent it re-evaluated, and both updates completed
C8_Witness ==
  /\ Updated /\ status = "ok" /\ Reissued.st = "ok"
  /\ \E d \in Evaluated \ {Target} : tile.cells[d].value # last.pre.cells[d].value
  /\ tile.cells[Target].value # last.pre.cells[Target].value

\* C9: parse returns none, or returns a node with the whole input consumed
C9_FullConsumption ==
  result.done # "none" => (~result.ok \/ result.pos = Len(input))

\* parse returned a node and left a suffix of the input unread
C9_Witness == result.done = "parsed" /\ result.ok /\ result.pos < Len(input)

C11_ListRoundTrip ==
  /\ result.done \in {"parsed", "evaluated"} =>
       /\ result.ok /\ ~result.panic
       /\ result.node.k = "List"
       /\ result.node.len = reference.n
       /\ (result.node.link # NoLink) <=> (reference.n > LIST_ELEMS)
  /\ result.done = "evaluated" => (~result.panic /\ result.val = ListVal(reference.vals))

\* the 12-element literal "1,2,...,12" was evaluated to its 12 values
C11_Witness ==
  /\ result.done = "evaluated" /\ reference.n = 12
  /\ input = ListText(0, 12)
  /\ result.node.link # NoLink
  /\ result.val = ListVal([i \in 1..12 |-> Num(DecInt(i))])

\* the operands of a BinOp widened to decimal, and whether a division of the
\* BinOp meets a zero divisor
Widen(v) == val_to_decimal(v)

Numeric(v) == v.t \in {"Int", "Float", "Bool"}

ZeroDivisor ==
  LET l == reference.left
      r == reference.right
  IN /\ reference.op = "/"
     /\ \/ l.t = "Num" /\ (r.t = "Num" \/ Numeric(r)) /\ Widen(r).n = 0
        \/ Numeric(l) /\ r.t = "Num" /\ r.q.n = 0
        \/ l.t = "List" /\ r.t = "Num" /\ r.q.n = 0
        \/ l.t = "Num" /\ r.t = "List" /\ \E i \in DOMAIN r.elems : Widen(r.elems[i]).n = 0

\* the value the dispatch table gives the BinOp
Table ==
  LET l == reference.left
      r == reference.right
      op == reference.op
  IN IF (l.t = "Num" /\ (r.t = "Num" \/ Numeric(r))) \/ (Numeric(l) /\ r.t = "Num")
     THEN Num(apply_op(op, Widen(l), Widen(r)).q)
     ELSE IF l.t = "List" /\ r.t = "Num"
     THEN ListVal([i \in DOMAIN l.elems |-> Num(apply_op(op, Widen(l.elems[i]), r.q).q)])
     ELSE IF l.t = "Num" /\ r.t = "List"
     THEN ListVal([i \in DOMAIN r.elems |-> Num(apply_op(op, l.q, Widen(r.elems[i])).q)])
     ELSE Num(DecInt(0))

\* C12: with no zero divisor, the BinOp over every pair of operand shapes
\* returns, and returns the value of the dispatch table
C12_Dispatch ==
  (result.done = "binop" /\ ~ZeroDivisor) => (~result.panic /\ result.out = Table)

\* Num + Float where the f64 is NaN: the BinOp panicked
C12_Witness ==
  /\ result.done = "binop" /\ reference.op = "+"
  /\ reference.left = Num(DecInt(2)) /\ reference.right = Float(NaN)
  /\ result.panic

Aggregate(v) == v.t \in {"List", "Array", "Record"}

\* C13: the conversions to i64, to String and to decimal return for every
\* value; an aggregate gives 0 for the numeric ones and its elements' strings
\* joined for the string one
C13_ConversionsTotal ==
  /\ result.done = "i64" =>
       (~result.panic /\ (Aggregate(reference.left) => result.out = 0))
  /\ result.done = "decimal" =>
       (~result.panic /\ (Aggregate(reference.left) => result.out = DecInt(0)))
  /\ result.done = "string" =>
       (~result.panic /\ (Aggregate(reference.left) => result.out = val_to_string(reference.left)))

\* i64::from(Str("a")) panicked
C13_Witness ==
  /\ result.done = "i64" /\ reference.left = Str(<<"a">>)
  /\ result.panic

\* the subscripts whose inner expression is a list of more than two elements
LongSubscripts == {s \in Subscripts : Len(s) > 5}

\* C14: parsing an Index or Addr whose inner list has more than two elements
\* gives no Index and no Addr node
C14_LongSubscript ==
  (result.done = "parsed" /\ input \in LongSubscripts) =>
    ~(result.ok /\ result.node.k \in {"Index", "Addr"})

\* "[1,2,3]" parsed to the Index of its first two elements
C14_Witness ==
  /\ result.done = "parsed" /\ input = <<"[", "1", ",", "2", ",", "3", "]">>
  /\ result.ok /\ result.node = Index(1, 2) /\ result.pos = Len(input)

\* C15: "[1]" parses to an Index with col = NodeId(1) and row = NodeId(0)
C15_SingleSubscript ==
  (result.done = "parsed" /\ input = <<"[", "1", "]">>) =>
    (result.ok /\ result.node.k = "Index" /\ result.node.col = 1 /\ result.node.row = 0)

\* C15, amended: "[1]" parses to an Index with row = NodeId(1), the Leaf of
\* the subscript, and col = NodeId(0), the Zero node of the arena
C15_SingleSubscriptRow ==
  (result.done = "parsed" /\ input = <<"[", "1", "]">>) =>
    /\ result.ok /\ result.node = Index(1, 0)
    /\ get_node(parser, 0).node = Zero
    /\ eval(get_node(parser, 1).node, parser, 0, tile).val = Num(DecInt(1))

\* "[1]" was parsed to Index{row: NodeId(1), col: NodeId(0)}
C15_Witness ==
  /\ result.done = "parsed" /\ input = <<"[", "1", "]">>
  /\ result.ok /\ result.node.k = "Index" /\ result.node.row = 1 /\ result.node.col = 0

\* C16: when the parser succeeds, the token texts of scan joined with no
\* separator are the prefix of the input the parse consumed
C16_ScanPrefix ==
  (result.done = "scanned" /\ result.ok) =>
    join(result.tokens, <<>>) = SubSeq(input, 1, result.pos)

\* scan of "1,1" consumed the three characters and returned the tokens "1", "1"
C16_Witness ==
  /\ result.done = "scanned" /\ input = <<"1", ",", "1">>
  /\ result.ok /\ result.pos = 3
  /\ result.tokens = << <<"1">>, <<"1">> >>

\* the cells written so far, and the largest of a set of numbers
WrittenIds == {pos_to_index(p[1], p[2]) : p \in reference.written}

Max(S) == CHOOSE m \in S : \A x \in S : x <= m

\* C17: the nodes of the dep graph are the written cells, one node a cell
C17_NodesOneToOne ==
  status = "ok" =>
    /\ \A i, j \in DOMAIN tile.deps.nodes : tile.deps.nodes[i] = tile.deps.nodes[j] => i = j
    /\ {tile.deps.nodes[i] : i \in DOMAIN tile.deps.nodes} = WrittenIds

\* the cell of the last write was written before and has two nodes
C17_Witness ==
  /\ last.op = "set_cell" /\ status = "ok"
  /\ pos_to_index(last.pos[1], last.pos[2]) \in DOMAIN last.pre.lookup
  /\ \E i, j \in DOMAIN tile.deps.nodes :
       i < j /\ tile.deps.nodes[i] = tile.deps.nodes[j] /\ tile.deps.nodes[i] = pos_to_index(last.pos[1], last.pos[2])

\* C18: rows is one more than the largest row written and cols one more than
\* the largest column written, both 0 before any write; a write lowers neither
C18_Extents ==
  status = "ok" =>
    /\ tile.rows = IF reference.written = {} THEN 0 ELSE 1 + Max({p[2] : p \in reference.written})
    /\ tile.cols = IF reference.written = {} THEN 0 ELSE 1 + Max({p[1] : p \in reference.written})
    /\ last.op = "set_cell" => (tile.rows >= last.pre.rows /\ tile.cols >= last.pre.cols)

\* a write inside the extents after a write that set them: rows and cols
\* differ and stayed
C18_Witness ==
  /\ last.op = "set_cell" /\ status = "ok"
  /\ last.pos[1] + 1 < tile.cols /\ last.pos[2] + 1 < tile.rows
  /\ tile.rows = last.pre.rows /\ tile.cols = last.pre.cols
  /\ tile.rows # tile.cols

\* C19: get_cell of the reference just written returns the cell written
C19_WriteRead ==
  result.done = "got" => (result.st = "ok" /\ result.cell = last.data)

\* a cell written before with other data was written again, by label, and read
C19_Witness ==
  /\ result.done = "got" /\ last.ref.kind = "Label"
  /\ last.pre.cells[pos_to_index(last.pos[1], last.pos[2])] \notin {CellDefault, last.data}
  /\ result.cell = last.data

\* C20: index_to_pos(pos_to_index(col, row)) = (col, row) for every position
\* of the tile and pos_to_index(index_to_pos(i)) = i for every index of it
C20_Inverses ==
  /\ result.done = "pos" => result.pos = [col |-> reference.col, row |-> reference.row]
  /\ result.done = "index" => result.index = reference.index

\* the round trip of a position off the diagonal and of the last index
C20_Witness ==
  \/ /\ result.done = "pos" /\ reference.col = COL_MAX - 1 /\ reference.row = 1
     /\ result.pos = [col |-> COL_MAX - 1, row |-> 1] /\ result.index = 2 * COL_MAX - 1
  \/ /\ result.done = "index" /\ reference.index = ROW_MAX * COL_MAX - 1
     /\ result.index = reference.index

\* C21: the label of a cell resolves to the CellId its position resolves to,
\* with both labels and with the column label alone
C21_LabelAgrees ==
  result.done \in {"pair", "column"} =>
    /\ result.by_label.ok /\ result.by_pos.ok
    /\ result.by_label.id = result.by_pos.id

\* ["B", "2"] resolved to the cell at [1, 1]
C21_Witness ==
  /\ result.done = "pair" /\ reference.col = 1 /\ reference.row = 1
  /\ result.by_label = [ok |-> TRUE, id |-> COL_MAX + 1]

\* C22: the k-th add_tile returned k, every tag returned names a tile of the
\* board that carries this tag, the board has no other tile, and len is the
\* number of add_tile calls
C22_TagsMonotone ==
  /\ \A k \in DOMAIN reference.issued :
       /\ reference.issued[k] = k - 1
       /\ reference.issued[k] \in DOMAIN board.tiles
       /\ board.tiles[reference.issued[k]].tag = reference.issued[k]
  /\ Board_len(board) = Len(reference.issued)
  /\ result.done = "len" => result.len = Len(reference.issued)

\* len after three add_tile calls and a write to the second tile
C22_Witness ==
  /\ result.done = "len" /\ result.len = 3
  /\ reference.issued = <<0, 1, 2>>
  /\ board.tiles[1] # Tile_new(1)

\* the integers the two subscripts of the Index node stand for
RowSubscript == val_to_i64(reference.row).i
ColSubscript == val_to_i64(reference.col).i

\* the edges the last operation added to the dep graph, as positions in edges
NewEdges == {i \in DOMAIN tile.deps.edges : i > Len(last.pre.deps.edges)}

\* the evaluation of the Index node read the cell at column col and row row:
\* it returned the value of that cell and added the edge from it to the cell
\* evaluated, and no other
ReadCell(col, row) ==
  /\ result.out = ValueAt(last.pre, <<col, row>>)
  /\ NewEdges # {}
  /\ \A i \in NewEdges :
       /\ tile.deps.nodes[tile.deps.edges[i][1] + 1] = pos_to_index(col, row)
       /\ tile.deps.nodes[tile.deps.edges[i][2] + 1] = reference.cell

C24_Terminates == Updated => status # "overflow"

\* the update of [0, 0] with "[0,0]" entered eval_cell for [0, 0] again
\* from the loop over its own dependents and did not come back
C24_Witness ==
  /\ Updated /\ last.pos = <<0, 0>> /\ last.formula = F_00
  /\ status = "overflow"
  /\ \E i, j \in DOMAIN last.trace :
       i < j /\ last.trace[i] = [e |-> "eval", cell |-> 0] /\ last.trace[j] = [e |-> "read", down |-> 0, up |-> 0, value |-> last.trace[j].value]

\* the iterations of the loop of the leftpoline call parse made, in order
OuterIterations == SelectSeq(parser.trace, LAMBDA it : it.start = 0 /\ it.key = rule_key("expr"))

\* the iteration found a longer parse than the iterations before it
Grew(it) == it.ok /\ it.new_len > it.len_parsed

\* C25: parse returns after at most one iteration a character and one more;
\* every iteration but the last grew the parse and left its result in the
\* memo, the last one failed or did not grow, and parse returns the result of
\* the last iteration that grew, none when there is no such iteration
C25_Terminates ==
  result.done = "parsed" =>
    LET its == OuterIterations
        n == Len(its)
    IN /\ n >= 1 /\ n <= Len(input) + 1
       /\ parser.trace[Len(parser.trace)] = its[n]
       /\ its[1].first /\ its[1].len_parsed = 0
       /\ \A i \in 1..(n - 1) :
            /\ Grew(its[i])
            /\ its[i + 1].len_parsed = its[i].new_len
            /\ its[i + 1].seed = [ok |-> TRUE, v |-> its[i].v]
       /\ ~Grew(its[n])
       /\ result.ok = (n > 1)
       /\ result.ok => result.node = its[n - 1].v

\* "1,1" took three iterations: 1, then the list 1,1, then none
C25_Witness ==
  /\ result.done = "parsed" /\ input = <<"1", ",", "1">>
  /\ Len(OuterIterations) = 3
  /\ result.node.k = "List"
  /\ OuterIterations[1].v.k = "Leaf"

\* C26: the first iteration of every leftpoline call finds no seed in the memo
C26_NoSeed ==
  result.done = "parsed" =>
    \A i \in DOMAIN parser.trace : parser.trace[i].first => ~parser.trace[i].seed.ok

\* "1,(,2)" parsed whole: the leftpoline call inside the parentheses found
\* the outer 1 as its seed, and the list in the parentheses begins with it
C26_Witness ==
  /\ result.done = "parsed" /\ input \in Nested /\ result.ok /\ result.pos = Len(input)
  /\ \E i \in DOMAIN parser.trace :
       /\ parser.trace[i].first /\ parser.trace[i].start = 3
       /\ parser.trace[i].seed = [ok |-> TRUE, v |-> parser.nodes[result.node.elems[1] + 1]]
  /\ LET inner == parser.nodes[result.node.elems[2] + 1]
     IN inner.k = "List" /\ parser.nodes[inner.elems[1] + 1] = parser.nodes[result.node.elems[1] + 1]

\* what an ordered choice with full rollback gives: the result of the first
\* alternative that succeeds, each alternative starting at the position, the
\* token count and the node count of the call
RECURSIVE Choice(_, _, _, _)
Choice(rules, i, at, p) ==
  IF i > Len(rules) THEN [ok |-> FALSE, v |-> Zero, after |-> save(p)]
  ELSE LET res == Apply(rules[i], p)
       IN IF res.ok THEN [ok |-> TRUE, v |-> res.v, after |-> save(res.p)]
          ELSE Choice(rules, i + 1, at,
                      [res.p EXCEPT !.pos = at.pos,
                                    !.tokens = SubSeq(@, 1, at.len_toks),
                                    !.nodes = SubSeq(@, 1, at.len_nodes)])

\* C27: select returns what the ordered choice with full rollback gives, and
\* a select that returns none leaves the position, the token count and the
\* node count as they were at the call
C27_SelectRollback ==
  result.done = "selected" =>
    LET choice == Choice(result.rules, 1, result.at, Parser_new(input))
    IN /\ result.ok = choice.ok
       /\ result.v = choice.v
       /\ result.after = choice.after
       /\ ~result.ok => result.after = result.at

\* select returned none on "(1": its first alternative had consumed both
\* characters and pushed tokens before it failed
C27_Witness ==
  /\ result.done = "selected" /\ ~result.ok
  /\ input = <<"(", "1">>
  /\ result.rules[1] = R("r_term_paren")
  /\ LET first == Apply(result.rules[1], Parser_new(input))
     IN ~first.ok /\ first.p.pos = 2 /\ Len(first.p.tokens) > 0
  /\ result.after = [pos |-> 0, len_toks |-> 0, len_nodes |-> 1]

\* the value the stored formula of cell c has over the cells of tile t:
\* Str("error") when the formula does not parse
FormulaValue(t, c) ==
  LET parsed == parse(Parser_new(t.cells[c].formula))
      res == eval(parsed.v, parsed.p, c, t)
  IN IF ~parsed.ok THEN [st |-> "ok", val |-> Str(ErrorStr)]
     ELSE [st |-> res.st, val |-> res.val]


\* C28: after an update on a tile whose formulas do not reference each other
\* in a cycle, every cell that was evaluated from a formula has the value its
\* formula has over the cells as they are now
C28_ValuesCurrent ==
  (Updated /\ status = "ok" /\ Acyclic(tile)) =>
    \A c \in last.evaluated : FormulaValue(tile, c) = [st |-> "ok", val |-> tile.cells[c].value]

\* the update of [0, 0] with "(" left Str("error") in [0, 0], and [2, 0],
\* whose formula "[0,0]" reads it, keeps the value it had before
C28_Witness ==
  /\ Updated /\ status = "ok" /\ Acyclic(tile)
  /\ last.pos = <<0, 0>> /\ last.formula = F_lpar
  /\ ValueAt(tile, <<0, 0>>) = Str(ErrorStr)
  /\ tile.cells[pos_to_index(2, 0)].formula = F_00
  /\ ValueAt(tile, <<2, 0>>) = ValueAt(last.pre, <<2, 0>>)
  /\ ValueAt(tile, <<2, 0>>) # Str(ErrorStr)

\* C29: the dep graph holds an edge from one cell to another at most once
C29_NoParallelEdges ==
  status = "ok" =>
    \A i, j \in DOMAIN tile.deps.edges : tile.deps.edges[i] = tile.deps.edges[j] => i = j

\* the update of [0, 0] re-evaluated [2, 0], whose formula read [0, 0]
\* before, and the graph now holds the edge from [0, 0] to [2, 0] once more
C29_Witness ==
  /\ Updated /\ status = "ok" /\ last.pos = <<0, 0>> /\ last.formula = F_ten
  /\ pos_to_index(2, 0) \in Evaluated
  /\ <<pos_to_index(0, 0), pos_to_index(2, 0)>> \in DepEdges(last.pre)
  /\ Len(tile.deps.edges) > Len(last.pre.deps.edges)
  /\ \E i, j \in DOMAIN tile.deps.edges :
       /\ i < j /\ tile.deps.edges[i] = tile.deps.edges[j]
       /\ tile.deps.nodes[tile.deps.edges[i][1] + 1] = pos_to_index(0, 0)
       /\ tile.deps.nodes[tile.deps.edges[i][2] + 1] = pos_to_index(2, 0)

\* the end of the longest run of whitespace of s that starts at position k
RECURSIVE RunEnd(_, _)
RunEnd(s, k) == IF k < Len(s) /\ is_whitespace(s[k + 1]) THEN RunEnd(s, k + 1) ELSE k

\* the tree and the nodes parse gives for a text
Tree(text) ==
  LET r == parse(Parser_new(text))
  IN [ok |-> r.ok, v |-> r.v, nodes |-> r.p.nodes, values |-> r.p.values]

\* C30: a successful ws or maybe_ws stops at the end of the longest run of
\* whitespace that starts at the position of the call, and "1+ 1" parses to
\* the tree of "1+1"
C30_WhitespaceOnly ==
  /\ (result.done \in {"ws", "maybe_ws"} /\ result.ok) => result.pos = RunEnd(input, reference.from)
  /\ Tree(<<"1", "+", " ", "1">>) = Tree(<<"1", "+", "1">>)

\* ws at the blank of "1 1" stopped behind the last character
C30_Witness ==
  /\ result.done = "ws" /\ result.ok
  /\ input = <<"1", " ", "1">> /\ reference.from = 1
  /\ result.pos = 3
  /\ Tree(<<"1", "+", " ", "1">>).v.k = "Leaf"

====
